---- MODULE Spec2Model ----
(***************************************************************************)
(* Skill catalog synchronisation engine of skillport (and of its earlier   *)
(* incarnation skillhub_mcp): add / update / remove of skill directories,  *)
(* the Origin Store that records their provenance, and the GitHub archive  *)
(* fetcher.                                                                *)
(*                                                                         *)
(* Paths and skill ids are sequences of path segments: the id "pack/a" is  *)
(* <<"pack", "a">>.  A directory is a record [body, complete]: body names  *)
(* the byte content of the tree, complete is FALSE for a tree that a       *)
(* failed copy left half written.  A dict is a function whose DOMAIN is    *)
(* the set of its keys.  A key that a record may lack in the JSON file     *)
(* (path, content_hash, commit_sha, updated_at) is held with the value     *)
(* the code's .get(key, "") default gives it.                              *)
(***************************************************************************)
EXTENDS Integers, Sequences, FiniteSets, TLC

VARIABLES
    catalog,    \* skills_dir: skill id -> installed directory
    origins,    \* origins.json: skill id -> origin record
    srcBody,    \* content of every source skill directory (local and remote)
    clock,      \* last timestamp handed out by datetime.now()
    temps,      \* temporary files and directories that exist on disk
    scope,      \* the sources this behaviour works with
    input,      \* the batch or the archive a behaviour is about
    last        \* the last call and what it returned

vars == <<catalog, origins, srcBody, clock, temps, scope, input, last>>

\* ---------------------------------------------------------------- bounds

MaxBody == 2
MaxClock == 2

Bodies == 1..MaxBody

\* ------------------------------------------------------- dicts and paths

Put(f, k, v) == [x \in (DOMAIN f) \cup {k} |-> IF x = k THEN v ELSE f[x]]

Del(f, k) == [x \in (DOMAIN f) \ {k} |-> f[x]]

EmptyDict == [x \in {} |-> x]

\* Path(p).name, and skill_id.split("/")[-1]
LastSeg(p) == IF Len(p) = 0 THEN "" ELSE p[Len(p)]

IsPrefix(p, q) == Len(p) <= Len(q) /\ SubSeq(q, 1, Len(p)) = p

\* --------------------------------------------------------- content hash

EmptyHash == [alg |-> "", digest |-> 0]

Dir(b) == [body |-> b, complete |-> TRUE]

PartialDir == [body |-> 0, complete |-> FALSE]

\* compute_content_hash_with_reason(path), on a dict of directories: the
\* digest depends on the file contents alone; a missing directory gives an
\* empty hash and a reason.
compute_content_hash_with_reason(tree, p) ==
    IF p \notin DOMAIN tree
    THEN [hash |-> EmptyHash, reason |-> "missing"]
    ELSE [hash |-> [alg |-> "sha256", digest |-> tree[p].body], reason |-> ""]

compute_content_hash(tree, p) == compute_content_hash_with_reason(tree, p).hash

\* ---------------------------------------------------------- the sources

BUILTIN_SKILLS == {"hello-world"}

\* Local directories a source string can name.
SoloBase == <<"solo">>
PackBase == <<"pack">>
LocalBases == {SoloBase, PackBase}

\* A source string is the sequence of its "/"-separated segments:
\* "https://github.com/o/r/tree/main/skills/gh" is GhUrl.
GhUrl == <<"https:", "", "github.com", "o", "r", "tree", "main", "skills", "gh">>

\* Every directory that holds a SKILL.md: /solo itself, /pack/a and, in the
\* repository, skills/gh.  The declared name of each is its directory name.
LocalSkillDirs == {<<"solo">>, <<"pack", "a">>}
RemoteSkillDir == <<"skills", "gh">>
SourceSkillDirs == LocalSkillDirs \cup {RemoteSkillDir}

\* (candidate / "SKILL.md").exists() for a local path
HasSkillMd(p) == p \in LocalSkillDirs

\* The local source directories as a dict path -> directory
LocalTree(sb) == [p \in LocalSkillDirs |-> Dir(sb[p])]

\* ---------------------------------------------------------- Origin Store

OriginRec(kind, source, path, hash, commit, at) ==
    [kind |-> kind, source |-> source, path |-> path, content_hash |-> hash,
     commit_sha |-> commit, added_at |-> at, updated_at |-> 0, history |-> <<>>]

\* record_origin: data[skill_id] = payload (with added_at); the whole file is
\* rewritten.  ok = FALSE is the write of origins.json failing.
record_origin(data, skill_id, payload, ok) ==
    IF ok THEN Put(data, skill_id, payload) ELSE data

\* remove_origin: deletes the key, and rewrites the file only when it was there.
remove_origin(data, skill_id, ok) ==
    IF skill_id \in DOMAIN data /\ ok THEN Del(data, skill_id) ELSE data

NoOrigin == OriginRec("none", <<>>, <<>>, EmptyHash, 0, 0)

\* get_origin: the record, or None
get_origin(data, skill_id) ==
    IF skill_id \in DOMAIN data THEN data[skill_id] ELSE NoOrigin

\* update_origin(skill_id, updates, add_history_entry): merges the updates into
\* the record of an id that has one and appends the history entry, if any.
update_origin(data, skill_id, upd, entries, ok) ==
    IF skill_id \notin DOMAIN data \/ ~ok THEN data
    ELSE LET o == data[skill_id]
             merged == [k \in DOMAIN o |-> IF k \in DOMAIN upd THEN upd[k] ELSE o[k]]
         IN  Put(data, skill_id, [merged EXCEPT !.history = @ \o entries])

\* ------------------------------------------------------ source resolution

SourceTypes == {"builtin", "github", "local"}

\* resolve_source: builtin name, then the GitHub prefix, then an existing
\* local directory; "error" stands for the ValueError.
\* on_disk tells what the path is on disk: "missing", "dir" or "file".
resolve_source_at(source, on_disk) ==
    IF Len(source) = 0 THEN "error"
    ELSE IF Len(source) = 1 /\ source[1] \in BUILTIN_SKILLS THEN "builtin"
    ELSE IF IsPrefix(<<"https:", "", "github.com">>, source) /\ Len(source) > 3 THEN "github"
    ELSE IF on_disk = "dir" THEN "local"
    ELSE "error"

\* resolve_source on the disk of the catalog runs, where the local bases are
\* the directories
resolve_source(source) ==
    resolve_source_at(source, IF source \in LocalBases THEN "dir" ELSE "missing")

\* parse_github_url: owner, repo, ref (default "main") and path; ok = FALSE is
\* the ValueError (no match, or a ".." segment in the path).
parse_github_url(url) ==
    LET n == Len(url)
        matches == /\ n >= 5 /\ IsPrefix(<<"https:", "", "github.com">>, url)
                   /\ url[4] # "" /\ url[5] # ""
                   /\ \/ n = 5
                      \/ n = 6 /\ url[6] = ""
                      \/ n >= 7 /\ url[6] = "tree" /\ url[7] # ""
        path == IF n > 7 THEN SubSeq(url, 8, n) ELSE <<>>
    IN  IF ~matches \/ (\E i \in 1..Len(path) : path[i] = "..")
        THEN [ok |-> FALSE, owner |-> "", repo |-> "", ref |-> "", path |-> <<>>]
        ELSE [ok |-> TRUE, owner |-> url[4], repo |-> url[5],
              ref |-> IF n >= 7 THEN url[7] ELSE "main", path |-> path]

\* _get_default_branch(owner, repo, token): one request to the repository
\* API; api_branch is the default_branch of the answer, "" when the request
\* fails.
get_default_branch(api_branch) == IF api_branch = "" THEN "main" ELSE api_branch

\* parse_github_url(url, resolve_default_branch): as above, and when the URL
\* names no ref and resolve_default_branch is set, the ref is looked up;
\* lookups counts the requests made.
parse_github_url_resolving(url, resolve_default_branch, api_branch) ==
    LET parsed == parse_github_url(url)
    IN  IF parsed.ok /\ Len(url) < 7 /\ resolve_default_branch
        THEN [parsed EXCEPT !.ref = get_default_branch(api_branch)] @@ [lookups |-> 1]
        ELSE parsed @@ [lookups |-> 0]

\* detect_skills(path) for a local directory: the root when it holds SKILL.md,
\* else the children that do, sorted by name.
detect_skills(path) ==
    IF HasSkillMd(path) THEN <<[name |-> LastSeg(path), source_path |-> path]>>
    ELSE IF path = PackBase
         THEN <<[name |-> "a", source_path |-> <<"pack", "a">>]>>
         ELSE <<>>

\* ------------------------------------------------------- add_local (batch)

\* _validate_skill_file: a fatal issue of the validator, or a declared name
\* that is not the directory name, raises.
validate_skill_file_ok(skill, i, env) ==
    i \notin env.invalid /\ skill.name = LastSeg(skill.source_path)

\* (first, the id with the test of keep_structure the wrong way round)
SkillIdOfSwapped(skill_name, keep_structure, namespace) ==
    IF keep_structure THEN <<skill_name>> ELSE <<namespace, skill_name>>

SkillIdOf(skill_name, keep_structure, namespace) ==
    IF keep_structure THEN <<namespace, skill_name>> ELSE <<skill_name>>

AddResultItem(ok, sid, msg) == [success |-> ok, skill_id |-> sid, message |-> msg]

\* The try block of the loop (lines 257-269): _copy_skill_dir into dest, which
\* does not exist at that point; when it raises, what was copied of dest is
\* removed again.
\* (first, the try block without the rmtree of its except branch)
CopySkillDirNoRollback(cat, skill_id, fresh, failed) ==
    IF failed THEN Put(cat, skill_id, PartialDir) ELSE Put(cat, skill_id, fresh)

CopySkillDir(cat, skill_id, fresh, failed) ==
    IF failed THEN cat ELSE Put(cat, skill_id, fresh)

\* One turn of the loop of add_local for skills[i]; acc holds the catalog, the
\* results so far, seen_ids and whether the ValueError was raised.
AddLocalStep(skills, i, srcTree, keep_structure, force, namespace, env, acc) ==
    LET skill == skills[i]
        skill_id == SkillIdOf(skill.name, keep_structure, namespace)
        seen == [acc EXCEPT !.seen_ids = @ \cup {skill_id}]
        \* shutil.rmtree(dest) of an existing destination under force
        cleared == IF skill_id \in DOMAIN acc.cat THEN Del(acc.cat, skill_id) ELSE acc.cat
    IN  IF skill_id \in acc.seen_ids
        THEN [acc EXCEPT !.raised = TRUE]
        ELSE IF skill_id \in DOMAIN acc.cat /\ ~force
        THEN [seen EXCEPT !.results = Append(@, AddResultItem(FALSE, skill_id, "exists"))]
        ELSE IF i \in env.symlinked \/ i \in env.ioFail
        THEN [seen EXCEPT !.cat = CopySkillDir(cleared, skill_id,
                                               srcTree[skill.source_path], TRUE),
                          !.results = Append(@, AddResultItem(FALSE, skill_id, "failed"))]
        ELSE [seen EXCEPT !.cat = CopySkillDir(cleared, skill_id,
                                               srcTree[skill.source_path], FALSE),
                          !.results = Append(@, AddResultItem(TRUE, skill_id, "added"))]

RECURSIVE AddLocalLoop(_, _, _, _, _, _, _, _)
AddLocalLoop(skills, i, srcTree, keep_structure, force, namespace, env, acc) ==
    IF i > Len(skills) \/ acc.raised THEN acc
    ELSE AddLocalLoop(skills, i + 1, srcTree, keep_structure, force, namespace, env,
                      AddLocalStep(skills, i, srcTree, keep_structure, force, namespace, env, acc))

\* add_local(source_path, skills, target_dir, keep_structure, force,
\* namespace_override): every skill is validated first, then each is copied
\* under its id.  namespace_override = "" is None.  env names the skills (by
\* index) the validator rejects, that hold a symlink, and whose copy fails
\* with an I/O error.
add_local(source_path, skills, srcTree, cat, keep_structure, force, namespace_override, env) ==
    LET start == [cat |-> cat, results |-> <<>>, seen_ids |-> {}, raised |-> FALSE]
        namespace == IF namespace_override # "" THEN namespace_override
                     ELSE LastSeg(source_path)
    IN  IF \E i \in 1..Len(skills) : ~validate_skill_file_ok(skills[i], i, env)
        THEN [start EXCEPT !.raised = TRUE]
        ELSE AddLocalLoop(skills, 1, srcTree, keep_structure, force, namespace, env, start)

NoFailures == [invalid |-> {}, symlinked |-> {}, ioFail |-> {}, storeOk |-> TRUE]

\* add_builtin(name, target_dir, force)
add_builtin(name, cat, force, builtinDir) ==
    IF <<name>> \in DOMAIN cat /\ ~force
    THEN [cat |-> cat, result |-> AddResultItem(FALSE, <<name>>, "exists")]
    ELSE [cat |-> Put(cat, <<name>>, builtinDir),
          result |-> AddResultItem(TRUE, <<name>>, "added")]

\* ------------------------------------------------------- GitHub archives

MAX_FILE_BYTES == 5000000
MAX_DOWNLOAD_BYTES == 200000000
MAX_EXTRACTED_BYTES == 10000000

\* Path components that are skipped: the names of EXCLUDE_NAMES and the
\* dot-prefixed names that occur in the archives of this model.
EXCLUDE_NAMES == {".git", ".env", "__pycache__", ".DS_Store", ".Spotlight-V100",
                  ".Trashes", "Thumbs.db", "desktop.ini"}
DotNames == {".git", ".env", ".DS_Store", ".Spotlight-V100", ".Trashes", ".hidden"}
IsSkippedPart(seg) == seg \in EXCLUDE_NAMES \/ seg \in DotNames

\* The names that can be the first path component of a member, in the order
\* sorted() gives them.
RootOrder == <<"o-r-sha", "pax_global_header">>
RootRank(r) == CHOOSE i \in 1..Len(RootOrder) : RootOrder[i] = r

Member(name, kind, size, data) == [name |-> name, kind |-> kind, size |-> size, data |-> data]

\* download_tarball(parsed, token) on the response resp = [status, chunks]:
\* created says whether the NamedTemporaryFile was made, written is the
\* number of bytes written to it.
\* (first, the loop that writes the chunk before it tests the total)
RECURSIVE DownloadLoopWriteFirst(_, _, _)
DownloadLoopWriteFirst(chunks, i, total) ==
    IF i > Len(chunks) THEN [ok |-> TRUE, written |-> total]
    ELSE IF chunks[i] = 0 THEN DownloadLoopWriteFirst(chunks, i + 1, total)
    ELSE IF total + chunks[i] > MAX_DOWNLOAD_BYTES
         THEN [ok |-> FALSE, written |-> total + chunks[i]]
    ELSE DownloadLoopWriteFirst(chunks, i + 1, total + chunks[i])

RECURSIVE DownloadLoop(_, _, _)
DownloadLoop(chunks, i, total) ==
    IF i > Len(chunks) THEN [ok |-> TRUE, written |-> total]
    ELSE IF chunks[i] = 0 THEN DownloadLoop(chunks, i + 1, total)
    ELSE IF total + chunks[i] > MAX_DOWNLOAD_BYTES THEN [ok |-> FALSE, written |-> total]
    ELSE DownloadLoop(chunks, i + 1, total + chunks[i])

download_tarball(resp) ==
    IF resp.status # 200
    THEN [ok |-> FALSE, created |-> FALSE, written |-> 0]
    ELSE LET r == DownloadLoop(resp.chunks, 1, 0)
         IN  [ok |-> r.ok, created |-> TRUE, written |-> r.written]

\* _iter_members_for_prefix: the members whose name starts with the prefix
\* "root/path/", each with the prefix stripped and its index in the archive.
iter_members_for_prefix(members, prefix) ==
    LET idx == {i \in 1..Len(members) :
                   IsPrefix(prefix, members[i].name) /\ Len(members[i].name) > Len(prefix)}
        RECURSIVE Pick(_)
        Pick(i) == IF i > Len(members) THEN <<>>
                   ELSE IF i \in idx
                        THEN <<[members[i] EXCEPT
                                  !.name = SubSeq(@, Len(prefix) + 1, Len(@))] @@ [idx |-> i]>>
                             \o Pick(i + 1)
                        ELSE Pick(i + 1)
    IN  Pick(1)

\* member.issym() alone, hard links let through
IsSymOnly(m) == m.kind = "sym"

\* member.islnk() or member.issym()
IsLinkMember(m) == m.kind \in {"sym", "lnk"}

\* any(p in EXCLUDE_NAMES or p.startswith(".") for p in parts)
HasSkippedPart(name) == \E k \in 1..Len(name) : IsSkippedPart(name[k])

\* (first, the loop with the cumulative ceiling tested after the write)
RECURSIVE ExtractLoopLateCheck(_, _, _)
ExtractLoopLateCheck(ms, i, acc) ==
    IF i > Len(ms) \/ acc.error # "" THEN acc
    ELSE LET m == ms[i] IN
         IF HasSkippedPart(m.name)
         THEN ExtractLoopLateCheck(ms, i + 1, acc)
         ELSE IF m.kind \in {"sym", "lnk"}
         THEN [acc EXCEPT !.error = "symlink"]
         ELSE IF m.kind = "dir"
         THEN ExtractLoopLateCheck(ms, i + 1, [acc EXCEPT !.written = Append(@, m)])
         ELSE IF m.size > MAX_FILE_BYTES
         THEN [acc EXCEPT !.error = "file too large"]
         ELSE IF acc.total_bytes + m.size > MAX_EXTRACTED_BYTES
         THEN [acc EXCEPT !.error = "extracted too large",
                          !.written = Append(@, m),
                          !.total_bytes = @ + m.size]
         ELSE ExtractLoopLateCheck(ms, i + 1, [acc EXCEPT !.written = Append(@, m),
                                                          !.total_bytes = @ + m.size])

\* The loop of extract_tarball over the selected members; acc holds what was
\* written under dest_root, total_bytes, and the error raised, if any.
RECURSIVE ExtractLoop(_, _, _)
ExtractLoop(ms, i, acc) ==
    IF i > Len(ms) \/ acc.error # "" THEN acc
    ELSE LET m == ms[i] IN
         IF HasSkippedPart(m.name)
         THEN ExtractLoop(ms, i + 1, acc)
         ELSE IF IsLinkMember(m)
         THEN [acc EXCEPT !.error = "symlink"]
         ELSE IF m.kind = "dir"
         THEN ExtractLoop(ms, i + 1, [acc EXCEPT !.written = Append(@, m)])
         ELSE IF m.size > MAX_FILE_BYTES
         THEN [acc EXCEPT !.error = "file too large"]
         ELSE IF acc.total_bytes + m.size > MAX_EXTRACTED_BYTES
         THEN [acc EXCEPT !.error = "extracted too large",
                          !.total_bytes = @ + m.size]
         ELSE ExtractLoop(ms, i + 1, [acc EXCEPT !.written = Append(@, m),
                                                 !.total_bytes = @ + m.size])

\* extract_tarball(tar_path, parsed): dest_root is made by mkdtemp before the
\* archive is opened, so it exists whatever the outcome.
extract_tarball(members, normalized_path) ==
    LET roots == {members[i].name[1] : i \in {j \in 1..Len(members) : Len(members[j].name) > 0}}
        start == [written |-> <<>>, total_bytes |-> 0, error |-> ""]
    IN  IF roots = {} THEN [start EXCEPT !.error = "empty"]
        ELSE LET root == CHOOSE r \in roots : \A q \in roots : RootRank(r) <= RootRank(q)
                 target_prefix == <<root>> \o normalized_path
             IN  ExtractLoop(iter_members_for_prefix(members, target_prefix), 1, start)

\* The directory that an extraction produced: its content is that of the
\* SKILL.md written at its root.
ExtractedDir(written) ==
    LET hit == {i \in 1..Len(written) :
                   written[i].name = <<"SKILL.md">> /\ written[i].kind = "file"}
    IN  IF hit = {} THEN PartialDir
        ELSE Dir(written[CHOOSE i \in hit : \A j \in hit : j <= i].data)

\* fetch_github_source(url): parse, download, extract, and unlink the tarball
\* after the extraction whether it raised or not.  leaked is the set of
\* temporary resources the call leaves on disk when it raises; on success
\* the extraction directory is handed to the caller.
fetch_github_source(url, resp) ==
    LET parsed == parse_github_url(url)
        dl == download_tarball(resp)
        ex == extract_tarball(resp.members, parsed.path)
    IN  IF ~parsed.ok
        THEN [ok |-> FALSE, dir |-> PartialDir, leaked |-> {}, commit_sha |-> 0]
        ELSE IF ~dl.ok
        THEN [ok |-> FALSE, dir |-> PartialDir, commit_sha |-> 0,
              leaked |-> IF dl.created THEN {"tarball"} ELSE {}]
        ELSE IF ex.error # ""
        THEN [ok |-> FALSE, dir |-> PartialDir, leaked |-> {"extract_dir"}, commit_sha |-> 0]
        ELSE [ok |-> TRUE, dir |-> ExtractedDir(ex.written), leaked |-> {},
              commit_sha |-> resp.commit]

\* ------------------------------------------------------------- add_skill

\* The ids of the catalog of this model.
BuiltinId == <<"hello-world">>
Ids == {<<"solo">>, <<"a">>, <<"gh">>, BuiltinId}

\* The content of a built-in template
BuiltinDir == [body |-> 1, complete |-> TRUE]

\* The response of the tarball endpoint for the repository whose skill has
\* content b: the archive as GitHub builds it, one that also carries a
\* symbolic link, a 404, and a body longer than the download ceiling.
ArchiveMembers(b) ==
    <<Member(<<"o-r-sha">>, "dir", 0, 0),
      Member(<<"o-r-sha", "README.md">>, "file", 2000, 0),
      Member(<<"o-r-sha", "skills", "gh">>, "dir", 0, 0),
      Member(<<"o-r-sha", "skills", "gh", "SKILL.md">>, "file", 1000, b)>>

GoodResponse(b) ==
    [status |-> 200, chunks |-> <<8192, 1000>>, members |-> ArchiveMembers(b), commit |-> b]

SymlinkResponse(b) ==
    [GoodResponse(b) EXCEPT !.members =
        Append(@, Member(<<"o-r-sha", "skills", "gh", "link">>, "sym", 0, 0))]

NotFoundResponse == [status |-> 404, chunks |-> <<>>, members |-> <<>>, commit |-> 0]

HugeResponse(b) ==
    [GoodResponse(b) EXCEPT !.chunks = <<MAX_DOWNLOAD_BYTES, 1>>]

Responses(b) == {GoodResponse(b), SymlinkResponse(b), NotFoundResponse, HugeResponse(b)}

\* What a call returned: raised is an exception leaving the call, source_hash
\* the source-side hash the call computed (empty when it computed none).
Outcome(op, id, force, dry_run, success, raised, message) ==
    [op |-> op, id |-> id, force |-> force, dry_run |-> dry_run, success |-> success,
     raised |-> raised, message |-> message, local_modified |-> FALSE,
     added |-> {}, updated |-> {}, skipped |-> {}, source_hash |-> EmptyHash]

\* The path add_skill stores in the Origin record of sid (lines 272-300).
OriginPathFor(kind, payload_path, sid) ==
    LET rel_path == <<LastSeg(sid)>>
        prefix == payload_path
    IN  IF kind = "github"
        THEN IF prefix # <<>> /\ rel_path # prefix
                /\ ~(Len(prefix) >= 2 /\ LastSeg(prefix) = LastSeg(sid))
             THEN prefix \o rel_path
             ELSE IF prefix # <<>> THEN prefix ELSE rel_path
        ELSE rel_path

\* The loop of add_skill over added_ids: one Origin record per installed id,
\* with the content hash of the installed directory.
RECURSIVE RecordAdded(_, _, _, _, _, _)
RecordAdded(data, cat, results, i, payload, storeOk) ==
    IF i > Len(results) THEN data
    ELSE LET r == results[i]
             enriched == [payload EXCEPT
                            !.path = OriginPathFor(payload.kind, payload.path, r.skill_id),
                            !.content_hash = compute_content_hash(cat, r.skill_id)]
         IN  RecordAdded(IF r.success THEN record_origin(data, r.skill_id, enriched, storeOk)
                         ELSE data,
                         cat, results, i + 1, payload, storeOk)

IdsOf(results, ok) == {results[i].skill_id : i \in {j \in 1..Len(results) : results[j].success = ok}}

\* add_skill(source, force, keep_structure) from line 105 on, once the source
\* directory (a local one, or the extraction of a GitHub archive) is at hand.
\* keep_structure is "none", "yes" or "no"; namespace = "" is None.
AddFromDirectory(source, stype, source_path, srcTree, skills, payload0, source_label, cat, org, force, keep_structure, namespace, env) ==
    LET single == Len(skills) = 1
        \* lines 150-156: a single skill has an empty path settled to its name
        payload == IF single /\ payload0.path = <<>>
                   THEN [payload0 EXCEPT !.path = <<skills[1].name>>] ELSE payload0
        keep == IF keep_structure = "none" THEN ~single ELSE keep_structure = "yes"
        \* lines 157-161: several skills kept under a namespace take the
        \* source label when the caller names none
        namespace_override == IF namespace # "" THEN namespace
                              ELSE IF ~single /\ keep THEN source_label ELSE ""
        res == add_local(source_path, skills, srcTree, cat, keep, force, namespace_override, env)
        out == Outcome("add", source, force, FALSE, FALSE, FALSE, "")
    IN  IF Len(skills) = 0
        THEN [cat |-> cat, org |-> org, out |-> [out EXCEPT !.message = "no skills"]]
        ELSE IF res.raised
        THEN [cat |-> res.cat, org |-> org,
              out |-> [out EXCEPT !.raised = TRUE, !.message = "raised"]]
        ELSE [cat |-> res.cat,
              org |-> RecordAdded(org, res.cat, res.results, 1, payload, env.storeOk),
              out |-> [out EXCEPT !.success = IdsOf(res.results, FALSE) = {},
                                  !.added = IdsOf(res.results, TRUE),
                                  !.skipped = IdsOf(res.results, FALSE),
                                  !.message = IF IdsOf(res.results, FALSE) # {}
                                              THEN "skipped" ELSE "added"]]

\* add_skill(source, force, keep_structure, namespace): the new catalog, Origin Store,
\* the temporary resources left on disk, and the result.  resp is the response
\* of the tarball endpoint; now is datetime.now().
add_skill(source, cat, org, sb, force, keep_structure, namespace, resp, env, now) ==
    LET stype == resolve_source(source)
        out == Outcome("add", source, force, FALSE, FALSE, FALSE, "")
        same == [cat |-> cat, org |-> org, leaked |-> {}, out |-> out]
    IN  IF stype = "error" THEN [same EXCEPT !.out.message = "invalid source"]
        ELSE IF stype = "builtin"
        THEN LET r == add_builtin(source[1], cat, force, BuiltinDir)
                 payload == OriginRec("builtin", source, <<>>, EmptyHash, 0, now)
             IN  [cat |-> r.cat, leaked |-> {},
                  org |-> IF r.result.success
                          THEN record_origin(org, r.result.skill_id, payload, env.storeOk)
                          ELSE org,
                  out |-> [out EXCEPT !.success = r.result.success,
                                      !.message = r.result.message,
                                      !.added = IF r.result.success THEN {BuiltinId} ELSE {},
                                      !.skipped = {}]]
        ELSE IF stype = "github"
        THEN LET parsed == parse_github_url(source)
                 fetched == fetch_github_source(source, resp)
                 \* the extraction, renamed to the name its SKILL.md declares
                 temp == <<LastSeg(parsed.path)>>
                 skills == IF fetched.dir.complete
                           THEN <<[name |-> LastSeg(parsed.path), source_path |-> temp]>>
                           ELSE <<>>
                 payload == OriginRec("github", source, parsed.path, EmptyHash,
                                      fetched.commit_sha, now)
                 r == AddFromDirectory(source, stype, temp, [p \in {temp} |-> fetched.dir],
                                       skills, payload, LastSeg(parsed.path),
                                       cat, org, force, keep_structure, namespace, env)
             IN  IF ~fetched.ok
                 THEN [same EXCEPT !.leaked = fetched.leaked, !.out.raised = TRUE,
                                   !.out.message = "raised"]
                 ELSE [cat |-> r.cat, org |-> r.org, leaked |-> {}, out |-> r.out]
        ELSE LET payload == OriginRec("local", source, <<>>, EmptyHash, 0, now)
                 r == AddFromDirectory(source, stype, source, LocalTree(sb),
                                       detect_skills(source), payload, LastSeg(source),
                                       cat, org, force, keep_structure, namespace, env)
             IN  [cat |-> r.cat, org |-> r.org, leaked |-> {}, out |-> r.out]

\* ---------------------------------------------------------- remove_skill

\* remove_skill with the Origin record removed whatever the removal of the
\* directory gave
remove_skill_origin_first(skill_id, cat, org, rmOk, storeOk) ==
    LET out == Outcome("remove", skill_id, FALSE, FALSE, FALSE, FALSE, "")
    IN  IF skill_id \notin DOMAIN cat
        THEN [cat |-> cat, org |-> org, out |-> [out EXCEPT !.message = "not found"]]
        ELSE [cat |-> IF rmOk THEN Del(cat, skill_id) ELSE cat,
              org |-> remove_origin(org, skill_id, storeOk),
              out |-> [out EXCEPT !.success = rmOk,
                                  !.message = IF rmOk THEN "removed" ELSE "failed"]]

\* remove_skill(skill_id): the directory is removed first; the Origin record
\* goes only when that succeeded.  rmOk = FALSE is shutil.rmtree failing.
remove_skill(skill_id, cat, org, rmOk, storeOk) ==
    LET out == Outcome("remove", skill_id, FALSE, FALSE, FALSE, FALSE, "")
    IN  IF skill_id \notin DOMAIN cat
        THEN [cat |-> cat, org |-> org, out |-> [out EXCEPT !.message = "not found"]]
        ELSE IF ~rmOk
        THEN [cat |-> cat, org |-> org, out |-> [out EXCEPT !.message = "failed"]]
        ELSE [cat |-> Del(cat, skill_id), org |-> remove_origin(org, skill_id, storeOk),
              out |-> [out EXCEPT !.success = TRUE, !.message = "removed"]]

\* ---------------------------------------------------------- update_skill

\* source_base / origin_path: a "." segment names the directory itself
JoinPath(base, rel) == base \o SelectSeq(rel, LAMBDA x : x # ".")

\* str(source_path.relative_to(source_base))
RelativeTo(p, base) == IF p = base THEN <<".">> ELSE SubSeq(p, Len(base) + 1, Len(p))

NoPath == <<"?">>

\* _resolve_local_skill_path(source, skill_id): source/skill_id, then
\* source/skill_name, then source itself; NoPath is None.
resolve_local_skill_path(source, skill_id) ==
    IF HasSkillMd(source \o skill_id) THEN source \o skill_id
    ELSE IF HasSkillMd(source \o <<LastSeg(skill_id)>>) THEN source \o <<LastSeg(skill_id)>>
    ELSE IF HasSkillMd(source) THEN source
    ELSE NoPath

\* get_remote_tree_hash(parsed, token, path): the digest of the tree at path of
\* the repository, comparable with a content hash; empty when the API call
\* fails or the path is not in the repository.
get_remote_tree_hash(sb, path, apiOk) ==
    IF apiOk /\ path = RemoteSkillDir
    THEN [alg |-> "sha256", digest |-> sb[RemoteSkillDir]]
    ELSE EmptyHash

\* _github_source_hash(origin, skill_id): the remote hash, and the Origin Store
\* after the narrowing of origin.path that it persists.
github_source_hash(origin, skill_id, org, sb, apiOk, storeOk) ==
    LET parsed == parse_github_url(origin.source)
        path == IF origin.path # <<>> THEN origin.path
                ELSE IF parsed.path # <<>> THEN parsed.path
                ELSE <<LastSeg(skill_id)>>
        remote_hash == get_remote_tree_hash(sb, path, apiOk)
        candidate == parsed.path \o <<LastSeg(skill_id)>>
        alt_hash == get_remote_tree_hash(sb, candidate, apiOk)
        narrowed == (remote_hash = EmptyHash \/ path = parsed.path)
                    /\ candidate # path /\ alt_hash # EmptyHash
        final == IF narrowed THEN alt_hash ELSE remote_hash
    IN  IF origin.source = <<>>
        THEN [hash |-> EmptyHash, reason |-> "missing url", org |-> org]
        ELSE [hash |-> final,
              reason |-> IF final = EmptyHash THEN "unknown" ELSE "",
              org |-> IF narrowed
                      THEN update_origin(org, skill_id, [path |-> candidate], <<>>, storeOk)
                      ELSE org]

\* The try block shared by both handlers: shutil.rmtree(dest_path), then
\* shutil.copytree(fresh, dest_path).  io is "ok", "rmtree_error" (the old
\* directory is still there), "copy_error_early" (nothing was created) or
\* "copy_error_midway" (a half-written directory is left).
ReplaceDir(cat, skill_id, fresh, io) ==
    IF io = "rmtree_error" THEN cat
    ELSE IF io = "copy_error_early" THEN Del(cat, skill_id)
    ELSE IF io = "copy_error_midway" THEN Put(cat, skill_id, PartialDir)
    ELSE Put(cat, skill_id, fresh)

IoOutcomes == {"ok", "rmtree_error", "copy_error_early", "copy_error_midway"}

\* The fields a successful update writes to the Origin record, and the
\* history entries it appends: a local update appends none.
\* (first, the local one without its updated_at)
LocalUpdatePatchNoStamp(new_hash, now) == [content_hash |-> new_hash]

LocalUpdatePatch(new_hash, now) == [content_hash |-> new_hash, updated_at |-> now]

GithubUpdatePatch(new_hash, commit_sha, now) ==
    [content_hash |-> new_hash, commit_sha |-> commit_sha, updated_at |-> now]

LocalHistoryEntries == <<>>

GithubHistoryEntries(old_commit, new_commit, now) ==
    <<[from_commit |-> old_commit, to_commit |-> new_commit, updated_at |-> now]>>

\* The comparison the wrong way round
HasLocalModsInverted(stored_hash, current_hash) ==
    stored_hash # EmptyHash /\ stored_hash = current_hash

\* has_local_mods = stored_hash and stored_hash != current_hash
HasLocalMods(stored_hash, current_hash) ==
    stored_hash # EmptyHash /\ stored_hash # current_hash

\* _update_from_local(skill_id, origin, force, dry_run)
update_from_local(skill_id, origin, cat, org, sb, force, dry_run, env, now) ==
    LET out0 == Outcome("update", skill_id, force, dry_run, FALSE, FALSE, "")
        source_base == origin.source
        source_path == IF origin.path # <<>>
                       THEN IF HasSkillMd(JoinPath(source_base, origin.path))
                            THEN JoinPath(source_base, origin.path) ELSE NoPath
                       ELSE resolve_local_skill_path(source_base, skill_id)
        \* lines 334-339: an empty origin.path is filled in
        org1 == IF origin.path = <<>>
                THEN update_origin(org, skill_id,
                                   [path |-> RelativeTo(source_path, source_base)],
                                   <<>>, env.storeOk)
                ELSE org
        source_hash == compute_content_hash_with_reason(LocalTree(sb), source_path).hash
        out == [out0 EXCEPT !.source_hash = source_hash]
        current_hash == compute_content_hash_with_reason(cat, skill_id).hash
        stored_hash == origin.content_hash
        cat2 == ReplaceDir(cat, skill_id, LocalTree(sb)[source_path], env.io)
        new_hash == compute_content_hash_with_reason(cat2, skill_id).hash
    IN  IF source_base \notin LocalBases
        THEN [cat |-> cat, org |-> org, out |-> [out0 EXCEPT !.message = "source not found"]]
        ELSE IF source_path = NoPath
        THEN [cat |-> cat, org |-> org, out |-> [out0 EXCEPT !.message = "not in source"]]
        ELSE IF source_hash = current_hash
        THEN IF stored_hash # current_hash /\ ~env.storeOk
             THEN [cat |-> cat, org |-> org1,
                   out |-> [out EXCEPT !.raised = TRUE, !.message = "raised"]]
             ELSE [cat |-> cat,
                   org |-> IF stored_hash # current_hash
                           THEN update_origin(org1, skill_id,
                                              [content_hash |-> current_hash], <<>>, TRUE)
                           ELSE org1,
                   out |-> [out EXCEPT !.success = TRUE, !.message = "up to date",
                                       !.skipped = {skill_id}]]
        ELSE IF HasLocalMods(stored_hash, current_hash) /\ ~force
        THEN [cat |-> cat, org |-> org1,
              out |-> [out EXCEPT !.message = "local modifications",
                                  !.local_modified = TRUE]]
        ELSE IF dry_run
        THEN [cat |-> cat, org |-> org1,
              out |-> [out EXCEPT !.success = TRUE, !.message = "would update",
                                  !.updated = {skill_id}]]
        ELSE IF env.io # "ok" \/ ~env.storeOk
        THEN [cat |-> cat2, org |-> org1, out |-> [out EXCEPT !.message = "failed"]]
        ELSE [cat |-> cat2,
              org |-> update_origin(org1, skill_id, LocalUpdatePatch(new_hash, now),
                                    LocalHistoryEntries, TRUE),
              out |-> [out EXCEPT !.success = TRUE, !.message = "updated",
                                  !.updated = {skill_id}]]

\* _update_from_github with the archive downloaded before the dry-run test
update_from_github_fetch_first(skill_id, origin, cat, org, sb, force, dry_run, resp, env, now) ==
    LET out == Outcome("update", skill_id, force, dry_run, FALSE, FALSE, "")
        same == [cat |-> cat, org |-> org, leaked |-> {}, fetched |-> FALSE, out |-> out]
        old_commit == origin.commit_sha
        stored_hash == origin.content_hash
        current_hash == compute_content_hash_with_reason(cat, skill_id).hash
        remote == github_source_hash(origin, skill_id, org, sb, env.apiOk, env.storeOk)
        org1 == remote.org
        seen == [same EXCEPT !.out.source_hash = remote.hash]
        fetched == fetch_github_source(origin.source, resp)
        cat2 == ReplaceDir(cat, skill_id, fetched.dir, env.io)
        new_hash == compute_content_hash_with_reason(cat2, skill_id).hash
    IN  IF origin.source = <<>> THEN [same EXCEPT !.out.message = "missing url"]
        ELSE IF ~parse_github_url(origin.source).ok
        THEN [same EXCEPT !.out.raised = TRUE, !.out.message = "raised"]
        ELSE IF remote.reason # ""
        THEN [same EXCEPT !.org = org1, !.out.message = "cannot check remote"]
        ELSE IF remote.hash = current_hash
        THEN IF stored_hash # current_hash /\ ~env.storeOk
             THEN [seen EXCEPT !.org = org1, !.out.raised = TRUE, !.out.message = "raised"]
             ELSE [seen EXCEPT
                     !.org = IF stored_hash # current_hash
                             THEN update_origin(org1, skill_id,
                                                [content_hash |-> current_hash], <<>>, TRUE)
                             ELSE org1,
                     !.out.success = TRUE, !.out.message = "up to date",
                     !.out.skipped = {skill_id}]
        ELSE IF HasLocalMods(stored_hash, current_hash) /\ ~force
        THEN [seen EXCEPT !.org = org1, !.out.message = "local modifications",
                          !.out.local_modified = TRUE]
        ELSE IF dry_run
        THEN [seen EXCEPT !.org = org1, !.fetched = TRUE, !.out.success = TRUE,
                          !.out.message = "would update", !.out.updated = {skill_id}]
        ELSE IF ~fetched.ok
        THEN [seen EXCEPT !.org = org1, !.leaked = fetched.leaked, !.fetched = TRUE,
                          !.out.message = "failed"]
        ELSE IF env.io # "ok" \/ ~env.storeOk
        THEN [seen EXCEPT !.cat = cat2, !.org = org1, !.fetched = TRUE,
                          !.out.message = "failed"]
        ELSE [seen EXCEPT
                !.cat = cat2, !.fetched = TRUE,
                !.org = update_origin(org1, skill_id,
                                      GithubUpdatePatch(new_hash, fetched.commit_sha, now),
                                      GithubHistoryEntries(old_commit, fetched.commit_sha, now),
                                      TRUE),
                !.out.success = TRUE, !.out.message = "updated",
                !.out.updated = {skill_id}]

\* _update_from_github(skill_id, origin, force, dry_run): phase 1 decides from
\* the tree digest, phase 2 downloads the archive and replaces the directory.
update_from_github(skill_id, origin, cat, org, sb, force, dry_run, resp, env, now) ==
    LET out == Outcome("update", skill_id, force, dry_run, FALSE, FALSE, "")
        same == [cat |-> cat, org |-> org, leaked |-> {}, fetched |-> FALSE, out |-> out]
        old_commit == origin.commit_sha
        stored_hash == origin.content_hash
        current_hash == compute_content_hash_with_reason(cat, skill_id).hash
        remote == github_source_hash(origin, skill_id, org, sb, env.apiOk, env.storeOk)
        org1 == remote.org
        seen == [same EXCEPT !.out.source_hash = remote.hash]
        fetched == fetch_github_source(origin.source, resp)
        cat2 == ReplaceDir(cat, skill_id, fetched.dir, env.io)
        new_hash == compute_content_hash_with_reason(cat2, skill_id).hash
    IN  IF origin.source = <<>> THEN [same EXCEPT !.out.message = "missing url"]
        ELSE IF ~parse_github_url(origin.source).ok
        THEN [same EXCEPT !.out.raised = TRUE, !.out.message = "raised"]
        ELSE IF remote.reason # ""
        THEN [same EXCEPT !.org = org1, !.out.message = "cannot check remote"]
        ELSE IF remote.hash = current_hash
        THEN IF stored_hash # current_hash /\ ~env.storeOk
             THEN [seen EXCEPT !.org = org1, !.out.raised = TRUE, !.out.message = "raised"]
             ELSE [seen EXCEPT
                     !.org = IF stored_hash # current_hash
                             THEN update_origin(org1, skill_id,
                                                [content_hash |-> current_hash], <<>>, TRUE)
                             ELSE org1,
                     !.out.success = TRUE, !.out.message = "up to date",
                     !.out.skipped = {skill_id}]
        ELSE IF HasLocalMods(stored_hash, current_hash) /\ ~force
        THEN [seen EXCEPT !.org = org1, !.out.message = "local modifications",
                          !.out.local_modified = TRUE]
        ELSE IF dry_run
        THEN [seen EXCEPT !.org = org1, !.out.success = TRUE,
                          !.out.message = "would update", !.out.updated = {skill_id}]
        ELSE IF ~fetched.ok
        THEN [seen EXCEPT !.org = org1, !.leaked = fetched.leaked, !.fetched = TRUE,
                          !.out.message = "failed"]
        ELSE IF env.io # "ok" \/ ~env.storeOk
        THEN [seen EXCEPT !.cat = cat2, !.org = org1, !.fetched = TRUE,
                          !.out.message = "failed"]
        ELSE [seen EXCEPT
                !.cat = cat2, !.fetched = TRUE,
                !.org = update_origin(org1, skill_id,
                                      GithubUpdatePatch(new_hash, fetched.commit_sha, now),
                                      GithubHistoryEntries(old_commit, fetched.commit_sha, now),
                                      TRUE),
                !.out.success = TRUE, !.out.message = "updated",
                !.out.updated = {skill_id}]

\* (first, update_skill without the check that the directory exists)
update_skill_unchecked_dir(skill_id, cat, org, sb, force, dry_run, resp, env, now) ==
    LET out == Outcome("update", skill_id, force, dry_run, FALSE, FALSE, "")
        same == [cat |-> cat, org |-> org, leaked |-> {}, fetched |-> FALSE, out |-> out]
        origin == get_origin(org, skill_id)
        loc == update_from_local(skill_id, origin, cat, org, sb, force, dry_run, env, now)
    IN  IF origin.kind = "none" THEN [same EXCEPT !.out.message = "no origin"]
        ELSE IF origin.kind = "builtin" THEN [same EXCEPT !.out.message = "built-in"]
        ELSE IF origin.kind = "local"
        THEN [same EXCEPT !.cat = loc.cat, !.org = loc.org, !.out = loc.out]
        ELSE IF origin.kind = "github"
        THEN update_from_github(skill_id, origin, cat, org, sb, force, dry_run, resp, env, now)
        ELSE [same EXCEPT !.out.message = "unknown kind"]

\* update_skill(skill_id, force, dry_run)
update_skill(skill_id, cat, org, sb, force, dry_run, resp, env, now) ==
    LET out == Outcome("update", skill_id, force, dry_run, FALSE, FALSE, "")
        same == [cat |-> cat, org |-> org, leaked |-> {}, fetched |-> FALSE, out |-> out]
        origin == get_origin(org, skill_id)
        loc == update_from_local(skill_id, origin, cat, org, sb, force, dry_run, env, now)
    IN  IF skill_id \notin DOMAIN cat THEN [same EXCEPT !.out.message = "not found"]
        ELSE IF origin.kind = "none" THEN [same EXCEPT !.out.message = "no origin"]
        ELSE IF origin.kind = "builtin" THEN [same EXCEPT !.out.message = "built-in"]
        ELSE IF origin.kind = "local"
        THEN [same EXCEPT !.cat = loc.cat, !.org = loc.org, !.out = loc.out]
        ELSE IF origin.kind = "github"
        THEN update_from_github(skill_id, origin, cat, org, sb, force, dry_run, resp, env, now)
        ELSE [same EXCEPT !.out.message = "unknown kind"]

\* -------------------------------------------------- check_update_available

\* _local_source_hash(origin, skill_id): the hash of source/origin.path when
\* that holds SKILL.md, else of the directory _resolve_local_skill_path finds
local_source_hash(origin, skill_id, sb) ==
    LET source_base == origin.source
        origin_path == IF origin.path # <<>> THEN origin.path ELSE <<LastSeg(skill_id)>>
        candidate == JoinPath(source_base, origin_path)
        source_path == IF HasSkillMd(candidate) THEN candidate
                       ELSE resolve_local_skill_path(source_base, skill_id)
    IN  IF source_base \notin LocalBases
        THEN [hash |-> EmptyHash, reason |-> "source not found"]
        ELSE IF source_path = NoPath
        THEN [hash |-> EmptyHash, reason |-> "not in source"]
        ELSE compute_content_hash_with_reason(LocalTree(sb), source_path)

\* What check_update_available returned; fetched tells whether the archive
\* was downloaded.
CheckOutcome(skill_id, available, raised, reason) ==
    Outcome("check", skill_id, FALSE, FALSE, ~raised, raised, reason)
    @@ [available |-> available, fetched |-> FALSE]

\* check_update_available that also resyncs the stored content_hash
check_update_available_resync(skill_id, cat, org, sb, env) ==
    LET origin == get_origin(org, skill_id)
        loc == local_source_hash(origin, skill_id, sb)
        gh == github_source_hash(origin, skill_id, org, sb, env.apiOk, env.storeOk)
        src == IF origin.kind = "local" THEN [hash |-> loc.hash, reason |-> loc.reason, org |-> org]
               ELSE IF origin.kind = "github" THEN gh
               ELSE [hash |-> EmptyHash, reason |-> "unknown kind", org |-> org]
        installed == compute_content_hash_with_reason(cat, skill_id)
    IN  IF origin.kind = "none"
        THEN [org |-> org, out |-> CheckOutcome(skill_id, FALSE, FALSE, "no origin")]
        ELSE IF origin.kind = "builtin"
        THEN [org |-> org, out |-> CheckOutcome(skill_id, FALSE, FALSE, "built-in")]
        ELSE IF origin.kind = "github" /\ origin.source # <<>>
                /\ ~parse_github_url(origin.source).ok
        THEN [org |-> org, out |-> CheckOutcome(skill_id, FALSE, TRUE, "raised")]
        ELSE IF src.reason # ""
        THEN [org |-> src.org, out |-> CheckOutcome(skill_id, FALSE, FALSE, src.reason)]
        ELSE IF installed.reason # ""
        THEN [org |-> src.org, out |-> CheckOutcome(skill_id, FALSE, FALSE, "unreadable")]
        ELSE IF src.hash = installed.hash
        THEN [org |-> update_origin(src.org, skill_id, [content_hash |-> installed.hash],
                                    <<>>, TRUE),
              out |-> CheckOutcome(skill_id, FALSE, FALSE, "latest")]
        ELSE [org |-> src.org,
              out |-> [CheckOutcome(skill_id, TRUE, FALSE, "differs")
                          EXCEPT !.source_hash = src.hash]]

\* check_update_available(skill_id): the result, and the Origin Store after
\* the narrowing of origin.path that _github_source_hash persists.
check_update_available(skill_id, cat, org, sb, env) ==
    LET origin == get_origin(org, skill_id)
        loc == local_source_hash(origin, skill_id, sb)
        gh == github_source_hash(origin, skill_id, org, sb, env.apiOk, env.storeOk)
        src == IF origin.kind = "local" THEN [hash |-> loc.hash, reason |-> loc.reason, org |-> org]
               ELSE IF origin.kind = "github" THEN gh
               ELSE [hash |-> EmptyHash, reason |-> "unknown kind", org |-> org]
        installed == compute_content_hash_with_reason(cat, skill_id)
    IN  IF origin.kind = "none"
        THEN [org |-> org, out |-> CheckOutcome(skill_id, FALSE, FALSE, "no origin")]
        ELSE IF origin.kind = "builtin"
        THEN [org |-> org, out |-> CheckOutcome(skill_id, FALSE, FALSE, "built-in")]
        ELSE IF origin.kind = "github" /\ origin.source # <<>>
                /\ ~parse_github_url(origin.source).ok
        THEN [org |-> org, out |-> CheckOutcome(skill_id, FALSE, TRUE, "raised")]
        ELSE IF src.reason # ""
        THEN [org |-> src.org, out |-> CheckOutcome(skill_id, FALSE, FALSE, src.reason)]
        ELSE IF installed.reason # ""
        THEN [org |-> src.org, out |-> CheckOutcome(skill_id, FALSE, FALSE, "unreadable")]
        ELSE IF src.hash = installed.hash
        THEN [org |-> src.org, out |-> CheckOutcome(skill_id, FALSE, FALSE, "latest")]
        ELSE [org |-> src.org,
              out |-> [CheckOutcome(skill_id, TRUE, FALSE, "differs")
                          EXCEPT !.source_hash = src.hash]]

\* ------------------------------------------------------ update_all_skills

\* One turn of the loop of update_all_skills for order[i]: a builtin record is
\* passed over, any other is handed to update_skill, whose result is folded
\* into updated, skipped and errors.  An exception leaving update_skill leaves
\* the loop and update_all_skills with it.  attempted lists the ids
\* update_skill was called on, with the success of each result.
UpdateAllFold(skill_id, r, acc) ==
    LET took == [acc EXCEPT !.cat = r.cat, !.org = r.org,
                            !.leaked = @ \cup r.leaked,
                            !.attempted = Append(@, [skill_id |-> skill_id,
                                                     success |-> r.out.success,
                                                     raised |-> r.out.raised])]
    IN  IF r.out.raised THEN [took EXCEPT !.raised = TRUE]
        ELSE [took EXCEPT
                !.updated = @ \cup r.out.updated,
                !.skipped = @ \cup r.out.skipped,
                !.errors = IF ~r.out.success /\ r.out.skipped = {}
                           THEN @ \cup {skill_id} ELSE @]

UpdateAllStep(skill_id, sb, force, dry_run, calls, now, acc) ==
    IF get_origin(acc.org, skill_id).kind = "builtin" THEN acc
    ELSE CHOOSE next \in
             {UpdateAllFold(skill_id, r, acc) :
                 r \in {update_skill(skill_id, acc.cat, acc.org, sb, force, dry_run,
                                      calls[skill_id][2], calls[skill_id][1], now)}} : TRUE

\* The loop over the records: after[i] is the state of the loop when the
\* first i records have had their turn; nothing more is done once an
\* exception has left the loop.
UpdateAllLoop(order, sb, force, dry_run, calls, now, start) ==
    LET after[i \in 0..Len(order)] ==
            IF i = 0 THEN start
            ELSE IF after[i - 1].raised THEN after[i - 1]
            ELSE UpdateAllStep(order[i], sb, force, dry_run, calls, now, after[i - 1])
    IN  after[Len(order)]

\* The combined UpdateResult built after the loop (lines 664-684), with the
\* catalog and the Origin Store the loop left
UpdateAllResult(done, force, dry_run, skill_ids) ==
    [cat |-> done.cat, org |-> done.org, leaked |-> done.leaked,
     out |-> [op |-> "update_all",
              success |-> ~done.raised /\ done.errors = {},
              raised |-> done.raised,
              message |-> IF done.raised THEN "raised"
                          ELSE IF done.updated \cup done.skipped \cup done.errors = {}
                               THEN "No skills to update" ELSE "summary",
              force |-> force, dry_run |-> dry_run, skill_ids |-> skill_ids,
              attempted |-> done.attempted, updated |-> done.updated,
              skipped |-> done.skipped, errors |-> done.errors]]

\* update_all_skills(force, dry_run, skill_ids): order is the order in which
\* origins.json lists the records, skill_ids the filter (all ids for None),
\* calls the failures and the response each skill's update meets.  With no
\* record selected the loop is not entered.
update_all_skills(order, cat, org, sb, force, dry_run, skill_ids, calls, now) ==
    UpdateAllResult(
        UpdateAllLoop(SelectSeq(order, LAMBDA k : k \in skill_ids), sb, force, dry_run,
                      calls, now,
                      [cat |-> cat, org |-> org, leaked |-> {}, attempted |-> <<>>,
                       updated |-> {}, skipped |-> {}, errors |-> {}, raised |-> FALSE]),
        force, dry_run, skill_ids)

\* ------------------------------------------- run_add_cli (skillhub_mcp)

\* run_add_cli for a local source: the earlier command line.  Its Origin
\* records carry neither path nor content_hash, and none is written unless
\* every skill of the batch was added.  force is --force, or the user's yes to
\* the overwrite prompt; without it an existing id aborts the command.
run_add_cli(source, cat, org, sb, force, env, now) ==
    LET out == Outcome("add_cli", source, force, FALSE, FALSE, FALSE, "")
        skills == detect_skills(source)
        conflicts == {i \in 1..Len(skills) : <<skills[i].name>> \in DOMAIN cat}
        res == add_local(source, skills, LocalTree(sb), cat, FALSE, force, "", env)
        ok == IdsOf(res.results, FALSE) = {}
        payload == OriginRec("local", source, <<>>, EmptyHash, 0, now)
        RECURSIVE RecordAll(_, _)
        RecordAll(data, i) ==
            IF i > Len(res.results) THEN data
            ELSE RecordAll(IF res.results[i].success
                           THEN record_origin(data, res.results[i].skill_id, payload, TRUE)
                           ELSE data, i + 1)
    IN  IF resolve_source(source) # "local" \/ Len(skills) = 0
        THEN [cat |-> cat, org |-> org, out |-> [out EXCEPT !.message = "error"]]
        ELSE IF conflicts # {} /\ ~force
        THEN [cat |-> cat, org |-> org, out |-> [out EXCEPT !.message = "aborted"]]
        ELSE IF res.raised
        THEN [cat |-> res.cat, org |-> org, out |-> [out EXCEPT !.message = "error"]]
        ELSE IF ok /\ ~env.storeOk
        THEN [cat |-> res.cat, org |-> org,
              out |-> [out EXCEPT !.raised = TRUE, !.message = "raised"]]
        ELSE [cat |-> res.cat,
              org |-> IF ok THEN RecordAll(org, 1) ELSE org,
              out |-> [out EXCEPT !.success = ok,
                                  !.added = IdsOf(res.results, TRUE),
                                  !.skipped = IdsOf(res.results, FALSE),
                                  !.message = IF ok THEN "added" ELSE "skipped"]]

\* ------------------------------------------------- the catalog as a system

\* Each behaviour works on the sources of one scope, fixed at the start.
Scopes == {{SoloBase}, {PackBase}, {GhUrl}, {BuiltinId}}

\* The ids that add_skill gives the skills of a source.
IdsFrom(source) ==
    IF source = GhUrl THEN {<<"gh">>}
    ELSE IF source = PackBase THEN {<<"a">>}
    ELSE {source}

ScopeIds(sc) == UNION {IdsFrom(source) : source \in sc}

\* The source directories whose content can change
ScopeDirs(sc) ==
    UNION {IF source = GhUrl THEN {RemoteSkillDir}
           ELSE IF source = PackBase THEN {<<"pack", "a">>}
           ELSE IF source = SoloBase THEN {SoloBase}
           ELSE {} : source \in sc}

\* One failure at a time: an I/O error during a copy, a failed write of
\* origins.json, a failed call of the tree API.
AddEnvs == {NoFailures, [NoFailures EXCEPT !.ioFail = {1}],
            [NoFailures EXCEPT !.storeOk = FALSE]}

NoUpdateFailures == [io |-> "ok", storeOk |-> TRUE, apiOk |-> TRUE]

UpdateEnvs == {[io |-> i, storeOk |-> TRUE, apiOk |-> TRUE] : i \in IoOutcomes}
              \cup {[io |-> "ok", storeOk |-> FALSE, apiOk |-> TRUE],
                    [io |-> "ok", storeOk |-> TRUE, apiOk |-> FALSE]}

\* The failures and the response of one call: a local failure with the
\* archive as GitHub builds it, or no local failure with any response.
Calls(envs, none, source, sb) ==
    IF source = GhUrl
    THEN {<<env, GoodResponse(sb[RemoteSkillDir])>> : env \in envs}
         \cup {<<none, resp>> : resp \in Responses(sb[RemoteSkillDir])}
    ELSE {<<env, NotFoundResponse>> : env \in envs}

Init ==
    /\ scope \in Scopes
    /\ catalog = EmptyDict
    /\ origins = EmptyDict
    /\ srcBody = [p \in SourceSkillDirs |-> 1]
    /\ clock = 0
    /\ temps = {}
    /\ input = <<>>
    /\ last = Outcome("init", <<>>, FALSE, FALSE, TRUE, FALSE, "")

Tick(org) == IF org # origins THEN clock + 1 ELSE clock

AddSkill ==
    \E source \in scope, force \in BOOLEAN :
      \E call \in Calls(AddEnvs, NoFailures, source, srcBody) :
        LET env == call[1]
            resp == call[2]
        IN  \E r \in {add_skill(source, catalog, origins, srcBody, force, "none", "", resp,
                               env, clock + 1)} :
            /\ clock < MaxClock
            /\ catalog' = r.cat
            /\ origins' = r.org
            /\ temps' = temps \cup r.leaked
            /\ clock' = Tick(r.org)
            /\ last' = r.out
            /\ UNCHANGED <<srcBody, scope, input>>

RunAddCli ==
    \E source \in scope \cap LocalBases, force \in BOOLEAN, env \in AddEnvs :
        \E r \in {run_add_cli(source, catalog, origins, srcBody, force, env, clock + 1)} :
            /\ clock < MaxClock
            /\ catalog' = r.cat
            /\ origins' = r.org
            /\ clock' = Tick(r.org)
            /\ last' = r.out
            /\ UNCHANGED <<srcBody, temps, scope, input>>

UpdateSkill ==
    \E skill_id \in ScopeIds(scope), force \in BOOLEAN, dry_run \in BOOLEAN :
      \E call \in Calls(UpdateEnvs, NoUpdateFailures,
                        get_origin(origins, skill_id).source, srcBody) :
        LET env == call[1]
            resp == call[2]
         IN  \E r \in {update_skill(skill_id, catalog, origins, srcBody, force, dry_run,
                                  resp, env, clock + 1)} :
            /\ clock < MaxClock
            /\ catalog' = r.cat
            /\ origins' = r.org
            /\ temps' = temps \cup r.leaked
            /\ clock' = Tick(r.org)
            /\ last' = r.out @@ [fetched |-> r.fetched]
            /\ UNCHANGED <<srcBody, scope, input>>

RemoveSkill ==
    \E skill_id \in ScopeIds(scope), rmOk \in BOOLEAN, storeOk \in BOOLEAN :
        \E r \in {remove_skill(skill_id, catalog, origins, rmOk, storeOk)} :
            /\ catalog' = r.cat
            /\ origins' = r.org
            /\ last' = r.out
            /\ UNCHANGED <<srcBody, clock, temps, scope, input>>

\* The user edits an installed skill.
EditInstalled ==
    \E skill_id \in DOMAIN catalog, b \in Bodies :
        /\ catalog[skill_id] # Dir(b)
        /\ catalog' = Put(catalog, skill_id, Dir(b))
        /\ last' = Outcome("edit", skill_id, FALSE, FALSE, TRUE, FALSE, "")
        /\ UNCHANGED <<origins, srcBody, clock, temps, scope, input>>

\* The content of a source (a local directory, the repository) changes.
ChangeSource ==
    \E p \in ScopeDirs(scope), b \in Bodies :
        /\ srcBody[p] # b
        /\ srcBody' = [srcBody EXCEPT ![p] = b]
        /\ last' = Outcome("source", p, FALSE, FALSE, TRUE, FALSE, "")
        /\ UNCHANGED <<catalog, origins, clock, temps, scope, input>>

Next ==
    \/ AddSkill
    \/ RunAddCli
    \/ UpdateSkill
    \/ RemoveSkill
    \/ EditInstalled
    \/ ChangeSource

Spec == Init /\ [][Next]_vars

\* ------------------------------------------------- properties of the catalog

\* The three handlers the catalog/Origin Store pairing is about
MutatingOps == {"add", "update", "remove"}

\* The source directory a skill id was installed from
SourceDirOf(skill_id) ==
    IF skill_id = <<"gh">> THEN RemoteSkillDir
    ELSE IF skill_id = <<"a">> THEN <<"pack", "a">>
    ELSE skill_id

\* The content hash of the source of an id, as the source is now
TrueSourceHash(skill_id) ==
    IF SourceDirOf(skill_id) \in SourceSkillDirs
    THEN [alg |-> "sha256", digest |-> srcBody[SourceDirOf(skill_id)]]
    ELSE EmptyHash

\* C1 (as the specification states it): after every call of add_skill,
\* update_skill or remove_skill, successful or failed, the ids that have an
\* Origin record are exactly the ids that have an installed directory.
C1_OriginsMatchCatalog ==
    last.op \in MutatingOps => DOMAIN origins = DOMAIN catalog

\* The precondition of C2: a step that is a call update_skill(id, force=False)
\* on an installed skill with a local or github origin, for which the call
\* computed a source hash, and whose installed hash differs from that hash
\* and from the stored one.
C2_Pre ==
    /\ last'.op = "update" /\ ~last'.force
    /\ last'.id \in DOMAIN catalog
    /\ get_origin(origins, last'.id).kind \in {"local", "github"}
    /\ last'.source_hash # EmptyHash
    /\ compute_content_hash(catalog, last'.id) # last'.source_hash
    /\ compute_content_hash(catalog, last'.id) # origins[last'.id].content_hash

C2_Refused ==
    /\ ~last'.success
    /\ last'.local_modified
    /\ last'.id \in DOMAIN catalog'
    /\ catalog'[last'.id] = catalog[last'.id]

\* C2 (as the specification states it): whatever the stored content_hash,
\* missing or empty included, update_skill with force=False on a skill whose
\* installed hash differs from the source hash and from the stored hash
\* returns success=False with local_modified=True and leaves the installed
\* directory unchanged.
C2_Original == [][C2_Pre => C2_Refused]_vars

\* C2 (amended): the refusal holds when the stored content_hash is not empty;
\* an empty or missing stored hash means "unknown" and is never counted as
\* a local modification.
C2_RefusesLocalMods ==
    [][(C2_Pre /\ origins[last'.id].content_hash # EmptyHash) => C2_Refused]_vars

\* A refused update of an edited skill whose source moved on
C2_Witness ==
    /\ last.op = "update" /\ ~last.force /\ last.local_modified
    /\ last.id \in DOMAIN catalog /\ last.id \in DOMAIN origins
    /\ origins[last.id].content_hash # EmptyHash
    /\ compute_content_hash(catalog, last.id) # origins[last.id].content_hash
    /\ compute_content_hash(catalog, last.id) # last.source_hash

\* The ids whose Origin record a step wrote, and those whose record it deleted
OriginWritten ==
    {id \in DOMAIN origins' : id \notin DOMAIN origins \/ origins'[id] # origins[id]}

OriginDeleted == DOMAIN origins \ DOMAIN origins'

\* C5 (as the specification states it): whatever the way a call ends, no
\* temporary resource it made (the tarball file, the extraction directory)
\* is left on disk.
C5_NoTempsLeft == temps = {}

C8_DryRunReadOnly ==
    [][(last'.op = "update" /\ last'.dry_run) =>
          /\ catalog' = catalog
          /\ origins' = origins
          /\ last'.message = "would update" => last'.updated = {last'.id}]_vars

\* The precondition of C9: the skill has the local or github Origin record
\* add_skill wrote (a path, and the hash of what it installed), the installed
\* content still has that hash, and so has the source (for a repository:
\* the tree API gave its digest).
C9_Pre ==
    /\ last'.op = "update"
    /\ last'.id \in DOMAIN catalog /\ last'.id \in DOMAIN origins
    /\ origins[last'.id].kind \in {"local", "github"}
    /\ origins[last'.id].path # <<>>
    /\ origins[last'.id].content_hash = compute_content_hash(catalog, last'.id)
    /\ TrueSourceHash(last'.id) = compute_content_hash(catalog, last'.id)
    /\ origins[last'.id].kind = "github" => last'.source_hash # EmptyHash

\* C9 (as the specification states it): update_skill on a skill that add_skill
\* installed, unedited since and with an unchanged source, succeeds with
\* "Already up to date", lists the skill in skipped, and changes neither the
\* directory nor the Origin Store.
C9_AlreadyUpToDate ==
    [][C9_Pre =>
          /\ last'.success /\ last'.message = "up to date"
          /\ last'.skipped = {last'.id}
          /\ catalog' = catalog /\ origins' = origins]_vars

\* The precondition of C10: a step that is a successful update_skill call,
\* not a dry run, that installed the new content.
C10_Pre ==
    /\ last'.op = "update" /\ last'.success /\ ~last'.dry_run
    /\ last'.updated = {last'.id}

C10_HashAndStamp ==
    /\ last'.id \in DOMAIN origins /\ last'.id \in DOMAIN origins'
    /\ origins'[last'.id].content_hash = compute_content_hash(catalog', last'.id)
    /\ origins'[last'.id].updated_at > origins[last'.id].updated_at
    /\ origins'[last'.id].updated_at > origins[last'.id].added_at

C14_Pre ==
    /\ last'.op = "update"
    /\ \/ last'.id \notin DOMAIN catalog
       \/ last'.id \notin DOMAIN origins
       \/ origins[last'.id].kind = "builtin"

\* C14: update_skill on a skill whose directory is missing, that has no
\* Origin record, or whose origin is builtin, returns success=False with the
\* message of that case (not found, cannot update, built-in), with or without
\* force, and leaves the catalog and the Origin Store as they were.
C14_NotUpdatableUntouched ==
    [][C14_Pre =>
          /\ ~last'.success /\ ~last'.raised
          /\ last'.message =
                (IF last'.id \notin DOMAIN catalog THEN "not found"
                 ELSE IF last'.id \notin DOMAIN origins THEN "no origin"
                 ELSE "built-in")
          /\ catalog' = catalog
          /\ origins' = origins]_vars

\* A forced update of an id whose Origin record outlived its directory
C14_Witness ==
    /\ last.op = "update" /\ last.force /\ last.message = "not found"
    /\ last.id \in DOMAIN origins /\ last.id \notin DOMAIN catalog

\* A forced update of an installed id without Origin record
C14_WitnessNoOrigin ==
    /\ last.op = "update" /\ last.force /\ last.message = "no origin"
    /\ last.id \in DOMAIN catalog

\* A forced update of the builtin skill
C14_WitnessBuiltin ==
    /\ last.op = "update" /\ last.force /\ last.message = "built-in"

\* C19 (as the specification states it): add_skill of the builtin skill
\* without force, when it is already installed, leaves the installed
\* directory as it was and returns a failure saying it exists whose skipped
\* list holds the id and whose added list does not.
C19_BuiltinReAddSkipped ==
    [][(/\ last'.op = "add" /\ last'.id = BuiltinId /\ ~last'.force
        /\ BuiltinId \in DOMAIN catalog)
       => (/\ catalog' = catalog
           /\ ~last'.success /\ last'.message = "exists"
           /\ BuiltinId \in last'.skipped
           /\ BuiltinId \notin last'.added)]_vars

\* ------------------------------------------- update_all_skills on a catalog

\* The catalog and the Origin Store after add_skill of each source of srcs in
\* turn, nothing failing; ids lists the Origin records in the order
\* origins.json holds them.
RECURSIVE InstalledFrom(_, _, _)
InstalledFrom(srcs, i, acc) ==
    IF i > Len(srcs) THEN acc
    ELSE LET r == add_skill(srcs[i], acc.cat, acc.org, [p \in SourceSkillDirs |-> 1],
                            FALSE, "none", "", GoodResponse(1), NoFailures, 0)
             fresh == SelectSeq(<<BuiltinId, <<"solo">>, <<"a">>, <<"gh">>>>,
                                LAMBDA k : k \in DOMAIN r.org /\ k \notin DOMAIN acc.org)
         IN  InstalledFrom(srcs, i + 1, [cat |-> r.cat, org |-> r.org,
                                         ids |-> acc.ids \o fresh])

\* The sources installed at the start, in the order they were added
UpdateAllSources ==
    {<<BuiltinId, PackBase, SoloBase>>, <<SoloBase, PackBase>>}

InitUpdateAll ==
    \E srcs \in UpdateAllSources :
      \E st \in {InstalledFrom(srcs, 1, [cat |-> EmptyDict, org |-> EmptyDict,
                                         ids |-> <<>>])} :
        /\ scope = {srcs[i] : i \in 1..Len(srcs)}
        /\ catalog = st.cat
        /\ origins = st.org
        /\ input = st.ids
        /\ srcBody = [p \in SourceSkillDirs |-> 1]
        /\ clock = 0
        /\ temps = {}
        /\ last = Outcome("init", <<>>, FALSE, FALSE, TRUE, FALSE, "")

\* The failures and the responses of one call of update_all_skills: at most
\* one skill's update meets a failure or an unusual response.
UpdateAllCalls ==
    LET quiet == [k \in Ids |-> <<NoUpdateFailures, GoodResponse(srcBody[RemoteSkillDir])>>]
    IN  {quiet} \cup
        UNION {{[quiet EXCEPT ![k] = call] :
                   call \in Calls(UpdateEnvs, NoUpdateFailures,
                                  get_origin(origins, k).source, srcBody)} :
               k \in DOMAIN origins}

\* update_all_skills(force, dry_run, skill_ids), with skill_ids None or one id
UpdateAllSkills ==
    \E force \in BOOLEAN, dry_run \in BOOLEAN, skill_ids \in {Ids, {<<"solo">>}} :
      \E calls \in UpdateAllCalls :
        \E r \in {update_all_skills(input, catalog, origins, srcBody, force, dry_run,
                                     skill_ids, calls, clock + 1)} :
            /\ clock < MaxClock
            /\ catalog' = r.cat
            /\ origins' = r.org
            /\ temps' = temps \cup r.leaked
            /\ clock' = Tick(r.org)
            /\ last' = r.out
            /\ UNCHANGED <<srcBody, scope, input>>

NextUpdateAll ==
    \/ UpdateAllSkills
    \/ EditInstalled
    \/ ChangeSource

SpecUpdateAll == InitUpdateAll /\ [][NextUpdateAll]_vars

\* The ids update_all_skills is to attempt: the records selected by skill_ids
\* whose kind is not builtin
ToAttempt ==
    {k \in DOMAIN origins : k \in last'.skill_ids /\ origins[k].kind # "builtin"}

\* C13 (as the specification states it): update_all_skills calls update_skill
\* exactly once on every selected Origin record that is not builtin and on no
\* builtin one, whatever failure or refusal one of them meets, and returns a
\* combined result whose success is true exactly when every one of these
\* updates succeeded.
C13_UpdateAllAttemptsEach ==
    [][last'.op = "update_all" =>
          /\ ~last'.raised
          /\ \A k \in ToAttempt :
                Cardinality({n \in 1..Len(last'.attempted) :
                                last'.attempted[n].skill_id = k}) = 1
          /\ \A n \in 1..Len(last'.attempted) : last'.attempted[n].skill_id \in ToAttempt
          /\ last'.success <=>
                \A n \in 1..Len(last'.attempted) : last'.attempted[n].success]_vars

\* ---------------------------------------------- re-adding an installed skill

\* The sources, with the content of each, after the skill directory of src
\* changed to content b
SourceChanged(src, b) ==
    [p \in SourceSkillDirs |-> IF p \in ScopeDirs({src}) THEN b ELSE 1]

\* The catalog and the Origin Store st after the source src changed and
\* update_skill brought its skill up to date, nothing failing
UpdatedOnce(src, st) ==
    LET skill_id == CHOOSE k \in IdsFrom(src) : TRUE
        r == update_skill(skill_id, st.cat, st.org, SourceChanged(src, MaxBody), FALSE,
                          FALSE, GoodResponse(MaxBody), NoUpdateFailures, 0)
    IN  [cat |-> r.cat, org |-> r.org, ids |-> st.ids]

\* A skill was added from its source; in the second case the source then
\* changed and the skill was updated.
InitReAdd ==
    \E src \in {GhUrl, SoloBase}, updated \in BOOLEAN :
      \E st0 \in {InstalledFrom(<<src>>, 1, [cat |-> EmptyDict, org |-> EmptyDict,
                                             ids |-> <<>>])} :
        \E st \in {IF updated THEN UpdatedOnce(src, st0) ELSE st0} :
          /\ scope = {src}
          /\ catalog = st.cat
          /\ origins = st.org
          /\ srcBody = SourceChanged(src, IF updated THEN MaxBody ELSE 1)
          /\ input = <<>>
          /\ clock = 0
          /\ temps = {}
          /\ last = Outcome("init", <<>>, FALSE, FALSE, TRUE, FALSE, "")

NextReAdd ==
    \/ AddSkill
    \/ UpdateSkill
    \/ EditInstalled
    \/ ChangeSource

SpecReAdd == InitReAdd /\ [][NextReAdd]_vars

\* The ids a forced add_skill installed again from the source their Origin
\* record names, that source being as the record's content hash has it
ReAddedUnchanged ==
    {k \in last'.added :
        /\ k \in DOMAIN origins
        /\ origins[k].source = last'.id
        /\ origins[k].content_hash = TrueSourceHash(k)}

\* C18 (as the specification states it): add_skill with force of a source
\* that is unchanged since the Origin record of its skill was written leaves
\* the content_hash and the history of that record as they were, whatever
\* the history holds.
C18_ReAddKeepsProvenance ==
    [][(last'.op = "add" /\ last'.force) =>
          \A k \in ReAddedUnchanged :
              /\ k \in DOMAIN origins'
              /\ origins'[k].content_hash = origins[k].content_hash
              /\ origins'[k].history = origins[k].history]_vars

\* ------------------------------------------------------ add_local on batches

MaxBatch == 2

\* The skills a batch is made of: x under two parents, and y.
BatchSkills ==
    {[name |-> "x", source_path |-> <<"p", "x">>],
     [name |-> "x", source_path |-> <<"q", "x">>],
     [name |-> "y", source_path |-> <<"p", "y">>]}

Batches == UNION {[1..n -> BatchSkills] : n \in 1..MaxBatch}

BatchTree ==
    [p \in {sk.source_path : sk \in BatchSkills} |->
        Dir(IF p = <<"q", "x">> THEN MaxBody ELSE 1)]

\* At most one skill of the batch fails, in one way.
BatchEnvs(skills) ==
    {NoFailures}
    \cup {[NoFailures EXCEPT !.ioFail = {i}] : i \in 1..Len(skills)}
    \cup {[NoFailures EXCEPT !.symlinked = {i}] : i \in 1..Len(skills)}
    \cup {[NoFailures EXCEPT !.invalid = {i}] : i \in 1..Len(skills)}

InitAddLocal ==
    /\ input \in Batches
    /\ catalog = EmptyDict
    /\ origins = EmptyDict
    /\ srcBody = [p \in SourceSkillDirs |-> 1]
    /\ clock = 0
    /\ temps = {}
    /\ scope = {}
    /\ last = [op |-> "init", results |-> <<>>, raised |-> FALSE,
               force |-> FALSE, keep_structure |-> FALSE, env |-> NoFailures]

AddLocalCall ==
    \E keep_structure \in BOOLEAN, force \in BOOLEAN, env \in BatchEnvs(input) :
        \E r \in {add_local(<<"p">>, input, BatchTree, catalog, keep_structure, force,
                            "", env)} :
            /\ catalog' = r.cat
            /\ last' = [op |-> "add_local", results |-> r.results, raised |-> r.raised,
                        force |-> force, keep_structure |-> keep_structure, env |-> env]
            /\ UNCHANGED <<origins, srcBody, clock, temps, scope, input>>

\* The user edits, or deletes, an installed skill between two calls.
TouchInstalled ==
    \E skill_id \in DOMAIN catalog :
        /\ \/ \E b \in Bodies : catalog[skill_id] # Dir(b) /\ catalog' = Put(catalog, skill_id, Dir(b))
           \/ catalog' = Del(catalog, skill_id)
        /\ last' = [op |-> "touch", results |-> <<>>, raised |-> FALSE,
                    force |-> FALSE, keep_structure |-> FALSE, env |-> NoFailures]
        /\ UNCHANGED <<origins, srcBody, clock, temps, scope, input>>

NextAddLocal ==
    \/ AddLocalCall
    \/ TouchInstalled

SpecAddLocal == InitAddLocal /\ [][NextAddLocal]_vars

\* Two skills of the batch get the same id: the ids of a call differ only by
\* the name, the namespace being the same for all.
HasDuplicateIds(skills) ==
    \E i, j \in 1..Len(skills) : i < j /\ skills[i].name = skills[j].name

\* C3 (as the specification states it): add_local on a batch in which two
\* skills resolve to the same id raises for the whole batch, and no skill
\* directory has been created or overwritten when it does.
C3_DuplicateAbortsBeforeCopy ==
    [][(last'.op = "add_local" /\ HasDuplicateIds(input)) =>
          (last'.raised /\ catalog' = catalog)]_vars

BatchIdOf(i) == SkillIdOf(input[i].name, last'.keep_structure, "p")

\* The skills of the batch that the call's environment makes fail on their
\* own: rejected by the validator, or failing in the copy.
FailsOnItsOwn(i) ==
    i \in last'.env.invalid \cup last'.env.symlinked \cup last'.env.ioFail

\* Result k of the call is a failure for skill_id with the given message
FailedWith(skill_id, msg) ==
    \E k \in 1..Len(last'.results) :
        /\ last'.results[k].skill_id = skill_id
        /\ ~last'.results[k].success
        /\ last'.results[k].message = msg

\* Skill i of the batch is installed, complete, with the content of its source
InstalledFromBatch(i) ==
    /\ BatchIdOf(i) \in DOMAIN catalog'
    /\ catalog'[BatchIdOf(i)] = BatchTree[input[i].source_path]

\* C11 (as the specification states it): an add without force, on a batch of
\* distinct ids, gives each skill whose id is already installed a failed
\* result saying it exists and leaves its installed directory as it was; every
\* other skill of the batch (that does not fail on its own) is installed.
\* A skill that is both installed and rejected by the validator is left out.
C11_ExistingSkippedSiblingsInstalled ==
    [][(last'.op = "add_local" /\ ~last'.force /\ ~HasDuplicateIds(input)) =>
          \A i \in 1..Len(input) :
              IF BatchIdOf(i) \in DOMAIN catalog
              THEN i \notin last'.env.invalid =>
                   /\ ~last'.raised
                   /\ FailedWith(BatchIdOf(i), "exists")
                   /\ BatchIdOf(i) \in DOMAIN catalog'
                   /\ catalog'[BatchIdOf(i)] = catalog[BatchIdOf(i)]
              ELSE ((\E j \in 1..Len(input) : BatchIdOf(j) \in DOMAIN catalog)
                      /\ ~FailsOnItsOwn(i))
                   => InstalledFromBatch(i)]_vars

\* C12 (as the specification states it): a skill of a batch of distinct ids
\* that the validator rejects gets a failed result of its own saying
\* 'Invalid SKILL.md', add_local does not raise, and every other skill of the
\* batch that neither fails on its own nor is already installed without
\* force is installed.
C12_InvalidSkillRecordedPerItem ==
    [][(last'.op = "add_local" /\ ~HasDuplicateIds(input)) =>
          \A i \in last'.env.invalid :
              /\ ~last'.raised
              /\ FailedWith(BatchIdOf(i), "Invalid SKILL.md")
              /\ \A j \in 1..Len(input) :
                    (~FailsOnItsOwn(j) /\ (last'.force \/ BatchIdOf(j) \notin DOMAIN catalog))
                    => InstalledFromBatch(j)]_vars

\* ------------------------------------------------- parsing of GitHub URLs

MaxPathLen == 2

\* The URLs handed to parse_github_url, as their "/"-separated segments:
\* owner and repo (one of them possibly ".." or empty), then nothing, a
\* trailing "/", or /tree/<ref> and a subpath of up to MaxPathLen segments.
UrlSegs == {"s", "..", ""}

UrlPaths == UNION {[1..n -> UrlSegs] : n \in 0..MaxPathLen}

Urls ==
    LET heads == {<<"https:", "", "github.com", owner, repo>> :
                     owner \in {"o", ".."}, repo \in {"r", "..", ""}}
    IN  heads
        \cup {h \o <<"">> : h \in heads}
        \cup {h \o <<"tree", ref>> \o path :
                 h \in heads, ref \in {"v1", ".."}, path \in UrlPaths}

InitParse ==
    /\ input \in Urls
    /\ catalog = EmptyDict
    /\ origins = EmptyDict
    /\ srcBody = [p \in SourceSkillDirs |-> 1]
    /\ clock = 0
    /\ temps = {}
    /\ scope = {}
    /\ last = [op |-> "init", ok |-> FALSE, owner |-> "", repo |-> "", ref |-> "",
               path |-> <<>>, lookups |-> 0, resolve_default_branch |-> FALSE]

\* parse_github_url(url, resolve_default_branch=...) on the URL
ParseGithubUrl ==
    \E resolve_default_branch \in BOOLEAN, api_branch \in {"", "dev"} :
      \E r \in {parse_github_url_resolving(input, resolve_default_branch, api_branch)} :
        /\ last' = [op |-> "parse", ok |-> r.ok, owner |-> r.owner, repo |-> r.repo,
                    ref |-> r.ref, path |-> r.path, lookups |-> r.lookups,
                    resolve_default_branch |-> resolve_default_branch]
        /\ UNCHANGED <<catalog, origins, srcBody, clock, temps, scope, input>>

NextParse ==
    \/ ParseGithubUrl

SpecParse == InitParse /\ [][NextParse]_vars

\* The segments of the URL after the host
UrlHasDotDot == \E i \in 4..Len(input) : input[i] = ".."

\* C15 (as the specification states it): parse_github_url rejects every URL
\* one of whose segments after the host (owner, repo, ref or a segment of the
\* subpath) is "..", and makes no default-branch lookup for it.
C15_DotDotRejected ==
    [][(last'.op = "parse" /\ UrlHasDotDot) =>
          (~last'.ok /\ last'.lookups = 0)]_vars

\* -------------------------------------------------- extraction of archives

MaxMembers == 3

SkillPrefix == <<"o-r-sha", "skills", "gh">>

\* The members an archive is made of: the SKILL.md of the skill (of an
\* allowed size, and one byte over the per-file cap), a file of exactly the
\* per-file cap, a symbolic link, a
\* hard link and a regular file of the same name, a symbolic link under a
\* hidden directory, and a symbolic link outside the requested path.
FetchMembers ==
    {Member(SkillPrefix \o <<"SKILL.md">>, "file", 1000, 1),
     Member(SkillPrefix \o <<"SKILL.md">>, "file", MAX_FILE_BYTES + 1, 1),
     Member(SkillPrefix \o <<"big">>, "file", MAX_FILE_BYTES, 0),
     Member(SkillPrefix \o <<"link">>, "sym", 0, 0),
     Member(SkillPrefix \o <<"link">>, "lnk", 0, 0),
     Member(SkillPrefix \o <<"link">>, "file", 1000, 0),
     Member(SkillPrefix \o <<".hidden", "link">>, "sym", 0, 0),
     Member(<<"o-r-sha", "other", "link">>, "sym", 0, 0)}

Archives == UNION {[1..n -> FetchMembers] : n \in 0..MaxMembers}

\* The paths a URL asks for: the skill, and the whole repository
FetchPaths == {<<"skills", "gh">>, <<>>}

InitFetch ==
    /\ input \in Archives
    /\ catalog = EmptyDict
    /\ origins = EmptyDict
    /\ srcBody = [p \in SourceSkillDirs |-> 1]
    /\ clock = 0
    /\ temps = {}
    /\ scope = {}
    /\ last = [op |-> "init", path |-> <<>>, written |-> <<>>, error |-> "", ok |-> TRUE]

\* extract_tarball(tar_path, parsed) on the archive
ExtractTarball ==
    \E path \in FetchPaths :
      \E r \in {extract_tarball(input, path)} :
        /\ last' = [op |-> "extract", path |-> path, written |-> r.written,
                    error |-> r.error, ok |-> r.error = ""]
        /\ temps' = IF r.error # "" THEN temps \cup {"extract_dir"} ELSE temps
        /\ UNCHANGED <<catalog, origins, srcBody, clock, scope, input>>

\* fetch_github_source(url) when the tarball endpoint serves the archive
FetchGithubSource ==
    \E chunks \in {<<8192, 1000>>, <<MAX_DOWNLOAD_BYTES, 1>>}, status \in {200, 404} :
      \E r \in {fetch_github_source(GhUrl, [status |-> status, chunks |-> chunks,
                                             members |-> input, commit |-> 1])} :
        /\ last' = [op |-> "fetch", path |-> parse_github_url(GhUrl).path,
                    written |-> <<>>, error |-> IF r.ok THEN "" ELSE "raised", ok |-> r.ok]
        /\ temps' = temps \cup r.leaked
        /\ UNCHANGED <<catalog, origins, srcBody, clock, scope, input>>

NextFetch ==
    \/ ExtractTarball
    \/ FetchGithubSource

SpecFetch == InitFetch /\ [][NextFetch]_vars

\* ------------------------------------------------- download of the archive

MaxChunks == 3

\* The lengths of the chunks iter_content yields: an empty chunk, one byte,
\* a full chunk of 8192 bytes, and a long run of chunks, given as one entry,
\* that ends one full chunk below the ceiling.
ChunkLens == {0, 1, 8192, MAX_DOWNLOAD_BYTES - 8192}

ChunkSeqs == UNION {[1..n -> ChunkLens] : n \in 0..MaxChunks}

\* download_tarball(parsed, token) when the endpoint answers with the status
\* and streams the chunks
DownloadTarball ==
    \E chunks \in ChunkSeqs, status \in {200, 404} :
      \E r \in {download_tarball([status |-> status, chunks |-> chunks])} :
        /\ last' = [op |-> "download", status |-> status, chunks |-> chunks,
                    ok |-> r.ok, created |-> r.created, bytes |-> r.written]
        /\ temps' = IF r.created /\ ~r.ok THEN temps \cup {"tarball"} ELSE temps
        /\ UNCHANGED <<catalog, origins, srcBody, clock, scope, input>>

InitDownload ==
    /\ input = <<>>
    /\ catalog = EmptyDict
    /\ origins = EmptyDict
    /\ srcBody = [p \in SourceSkillDirs |-> 1]
    /\ clock = 0
    /\ temps = {}
    /\ scope = {}
    /\ last = [op |-> "init", status |-> 0, chunks |-> <<>>, ok |-> TRUE,
               created |-> FALSE, bytes |-> 0]

NextDownload ==
    \/ DownloadTarball

SpecDownload == InitDownload /\ [][NextDownload]_vars

\* The members of the archive that lie under the path a call asked for
UnderPrefix(path) ==
    {i \in 1..Len(input) :
        /\ IsPrefix(<<"o-r-sha">> \o path, input[i].name)
        /\ Len(input[i].name) > Len(path) + 1}

\* The part of a member's name below the requested path
BelowPrefix(i, path) == SubSeq(input[i].name, Len(path) + 2, Len(input[i].name))

WrittenIdx == {last'.written[k].idx : k \in 1..Len(last'.written)}

\* The member types of symbolic and hard links
LinkTypes == {"sym", "lnk"}

\* C6 (as the specification states it): any symbolic or hard link among the
\* members under the requested path makes extract_tarball fail for the whole
\* archive, and nothing is written for that member.
C6_Original ==
    [][last'.op = "extract" =>
          \A i \in UnderPrefix(last'.path) :
              input[i].kind \in LinkTypes => (last'.error # "" /\ i \notin WrittenIdx)]_vars

\* C6 (amended): a symbolic or hard link under the requested path, none of
\* whose path components below it is hidden or excluded, makes
\* extract_tarball fail for the whole archive; a link under a hidden or
\* excluded component is skipped like any member there; nothing is ever
\* written for a link.
C6_LinkFailsExtraction ==
    [][last'.op = "extract" =>
          \A i \in UnderPrefix(last'.path) :
              input[i].kind \in LinkTypes =>
                /\ i \notin WrittenIdx
                /\ ~HasSkippedPart(BelowPrefix(i, last'.path)) => last'.error # ""]_vars

\* An extraction that wrote SKILL.md and then met a link
C6_Witness ==
    /\ last.op = "extract" /\ last.error = "symlink"
    /\ Len(last.written) = 1
    /\ Len(input) = 2 /\ input[2].kind \in LinkTypes

\* The members under the requested path that extract_tarball does not skip
Considered(path) ==
    {i \in UnderPrefix(path) : ~HasSkippedPart(BelowPrefix(i, path))}

\* The bytes of the regular files among the members idx of the archive
RECURSIVE FileBytes(_)
FileBytes(idx) ==
    IF idx = {} THEN 0
    ELSE LET i == CHOOSE j \in idx : TRUE
         IN  (IF input[i].kind = "file" THEN input[i].size ELSE 0) + FileBytes(idx \ {i})

\* C16: extract_tarball writes no file larger than the per-file cap, the
\* bytes it writes in all never exceed the cumulative cap, and a file that is
\* over the per-file cap, or that takes the bytes of the files before it over
\* the cumulative cap, makes the extraction fail without being written.
C16_ExtractionCaps ==
    [][last'.op = "extract" =>
          /\ \A i \in WrittenIdx : input[i].kind = "file" => input[i].size <= MAX_FILE_BYTES
          /\ FileBytes(WrittenIdx) <= MAX_EXTRACTED_BYTES
          /\ \A i \in Considered(last'.path) :
                (/\ input[i].kind = "file"
                 /\ \/ input[i].size > MAX_FILE_BYTES
                    \/ FileBytes({j \in Considered(last'.path) : j <= i})
                          > MAX_EXTRACTED_BYTES)
                => (last'.error # "" /\ i \notin WrittenIdx)]_vars

\* An extraction that wrote two files and failed on the third, which took
\* the total over the cumulative cap
C16_Witness ==
    /\ last.op = "extract" /\ last.error = "extracted too large"
    /\ Len(last.written) = 2 /\ Len(input) = 3
    /\ \A i \in 1..3 : input[i].kind = "file" /\ input[i].size <= MAX_FILE_BYTES

\* The bytes of the first n chunks of the download
RECURSIVE ChunkBytes(_, _)
ChunkBytes(chunks, n) == IF n = 0 THEN 0 ELSE chunks[n] + ChunkBytes(chunks, n - 1)

\* The chunks that take the running total above the download ceiling
OverCeiling(chunks) ==
    {k \in 1..Len(chunks) : ChunkBytes(chunks, k) > MAX_DOWNLOAD_BYTES}

\* C17: download_tarball never writes more than the download ceiling to the
\* temporary file; it fails at the first chunk that takes the running total
\* above the ceiling, having written the chunks before it and nothing of that
\* chunk, and succeeds with every chunk written when no chunk does.
C17_DownloadCeiling ==
    [][(last'.op = "download" /\ last'.status = 200) =>
          /\ last'.bytes <= MAX_DOWNLOAD_BYTES
          /\ IF OverCeiling(last'.chunks) = {}
             THEN last'.ok /\ last'.bytes = ChunkBytes(last'.chunks, Len(last'.chunks))
             ELSE LET k == CHOOSE j \in OverCeiling(last'.chunks) :
                               \A q \in OverCeiling(last'.chunks) : j <= q
                  IN  ~last'.ok /\ last'.bytes = ChunkBytes(last'.chunks, k - 1)]_vars

\* A download that reached the ceiling exactly and failed on the next byte
C17_Witness ==
    /\ last.op = "download" /\ ~last.ok /\ last.bytes = MAX_DOWNLOAD_BYTES
    /\ Len(last.chunks) = 3 /\ last.chunks[3] = 1

\* ------------------------------------------- add_skill on detected skills

\* The namespaces a caller gives ("" is None)
Namespaces == {"", "team"}

\* The directory add_skill hands to add_local: the local source itself; for
\* a GitHub source the extraction, renamed to the name of the skill when it
\* holds exactly one.
HandedDirOf(stype, source, skills) ==
    IF stype = "local" THEN source
    ELSE IF Len(skills) = 1 THEN <<skills[1].name>> ELSE <<"skillport-gh">>

\* The label of a source: the name of the directory, or the last part of the
\* path in the repository.
SourceLabelOf(stype, source) ==
    IF stype = "local" THEN LastSeg(source) ELSE LastSeg(parse_github_url(source).path)

InitAddIds ==
    /\ input \in Batches
    /\ catalog = EmptyDict
    /\ origins = EmptyDict
    /\ srcBody = [p \in SourceSkillDirs |-> 1]
    /\ clock = 0
    /\ temps = {}
    /\ scope = {}
    /\ last = Outcome("init", <<>>, FALSE, FALSE, FALSE, FALSE, "")

\* add_skill on a source in which the skills of input were detected
AddDetected ==
    \E stype \in {"local", "github"}, keep_structure \in {"none", "yes", "no"},
       namespace \in Namespaces, force \in BOOLEAN,
       env \in {NoFailures, [NoFailures EXCEPT !.ioFail = {1}]} :
        LET source == IF stype = "local" THEN <<"p">> ELSE GhUrl
            path == IF stype = "local" THEN <<>> ELSE parse_github_url(source).path
            payload == OriginRec(stype, source, path, EmptyHash, 0, clock + 1)
        IN  \E r \in {AddFromDirectory(source, stype, HandedDirOf(stype, source, input),
                                        BatchTree, input, payload,
                                        SourceLabelOf(stype, source), catalog, origins,
                                        force, keep_structure, namespace, env)} :
            /\ clock < MaxClock
            /\ catalog' = r.cat
            /\ origins' = r.org
            /\ clock' = clock + 1
            /\ last' = r.out @@ [keep_structure |-> keep_structure,
                                 namespace |-> namespace,
                                 source_label |-> SourceLabelOf(stype, source)]
            /\ UNCHANGED <<srcBody, temps, scope, input>>

NextAddIds ==
    \/ AddDetected

SpecAddIds == InitAddIds /\ [][NextAddIds]_vars

\* The id the claim gives the skill called name, for what the caller passed
\* and the number of skills detected
ClaimedId(name, keep_structure, namespace, source_label, detected) ==
    LET keep == IF keep_structure = "none" THEN detected > 1 ELSE keep_structure = "yes"
        ns == IF namespace # "" THEN namespace ELSE source_label
    IN  IF keep THEN <<ns, name>> ELSE <<name>>

MaxChildren == 2

\* The names a SKILL.md declares, and the names of the directories: child k
\* is the k-th entry of the directory in sorted order, 0 the root itself.
DeclNames == {<<"decl", j>> : j \in 1..MaxChildren}
DirName(k) == <<"dir", k>>

\* A SKILL.md as _load_skill_info sees it: absent, with a frontmatter that is
\* not a mapping, or with a mapping that declares a name or none (<<>>).
NoSkillMd == [has |-> FALSE, mapping |-> FALSE, name |-> <<>>]
SkillMds ==
    {NoSkillMd, [has |-> TRUE, mapping |-> FALSE, name |-> <<>>]}
    \cup {[has |-> TRUE, mapping |-> TRUE, name |-> n] : n \in DeclNames \cup {<<>>}}

\* The entries of a directory: plain files and directories
DirEntries ==
    {[is_dir |-> FALSE, md |-> NoSkillMd]} \cup {[is_dir |-> TRUE, md |-> m] : m \in SkillMds}

\* The paths detect_skills is called on
DetectInputs ==
    {[exists |-> FALSE, is_dir |-> FALSE, md |-> NoSkillMd, children |-> <<>>],
     [exists |-> TRUE, is_dir |-> FALSE, md |-> NoSkillMd, children |-> <<>>]}
    \cup {[exists |-> TRUE, is_dir |-> TRUE, md |-> m, children |-> c] :
              m \in SkillMds, c \in UNION {[1..n -> DirEntries] : n \in 0..MaxChildren}}

\* _load_skill_info(skill_dir)
load_skill_info(k, md) ==
    IF ~md.has THEN [raised |-> "FileNotFoundError", name |-> <<>>, source_path |-> k]
    ELSE IF ~md.mapping THEN [raised |-> "ValueError", name |-> <<>>, source_path |-> k]
    ELSE [raised |-> "", name |-> IF md.name # <<>> THEN md.name ELSE DirName(k),
          source_path |-> k]

\* sorted(path.iterdir()): the entries in the order of their names
RECURSIVE SortedEntries(_)
SortedEntries(listing) ==
    IF listing = <<>> THEN <<>>
    ELSE LET least == CHOOSE i \in 1..Len(listing) :
                          \A j \in 1..Len(listing) : listing[i] <= listing[j]
         IN  <<listing[least]>>
             \o SortedEntries(SubSeq(listing, 1, least - 1)
                              \o SubSeq(listing, least + 1, Len(listing)))

\* The loop of detect_skills over the children, stopped by an exception of
\* _load_skill_info
RECURSIVE DetectLoop(_, _, _, _)
DetectLoop(children, order, i, acc) ==
    IF i > Len(order) \/ acc.raised # "" THEN acc
    ELSE LET child == children[order[i]]
             info == load_skill_info(order[i], child.md)
         IN  DetectLoop(children, order, i + 1,
                        IF ~child.is_dir \/ ~child.md.has THEN acc
                        ELSE IF info.raised # "" THEN [acc EXCEPT !.raised = info.raised]
                        ELSE [acc EXCEPT !.skills =
                                  Append(@, [name |-> info.name,
                                             source_path |-> info.source_path])])

\* detect_skills over the children as the directory lists them
detect_skills_unsorted(path, listing) ==
    LET start == [raised |-> "", skills |-> <<>>]
        root == load_skill_info(0, path.md)
    IN  IF ~path.exists THEN [start EXCEPT !.raised = "FileNotFoundError"]
        ELSE IF ~path.is_dir THEN [start EXCEPT !.raised = "ValueError"]
        ELSE IF path.md.has
        THEN IF root.raised # "" THEN [start EXCEPT !.raised = root.raised]
             ELSE [start EXCEPT !.skills = <<[name |-> root.name, source_path |-> 0]>>]
        ELSE DetectLoop(path.children, listing, 1, start)

\* detect_skills(path) on the directory path, whose iterdir() yields listing
detect_skills_in(path, listing) ==
    LET start == [raised |-> "", skills |-> <<>>]
        root == load_skill_info(0, path.md)
    IN  IF ~path.exists THEN [start EXCEPT !.raised = "FileNotFoundError"]
        ELSE IF ~path.is_dir THEN [start EXCEPT !.raised = "ValueError"]
        ELSE IF path.md.has
        THEN IF root.raised # "" THEN [start EXCEPT !.raised = root.raised]
             ELSE [start EXCEPT !.skills = <<[name |-> root.name, source_path |-> 0]>>]
        ELSE DetectLoop(path.children, SortedEntries(listing), 1, start)

\* The orders in which iterdir() can yield n entries
Listings(n) == {l \in [1..n -> 1..n] : \A i, j \in 1..n : i # j => l[i] # l[j]}

InitDetect ==
    /\ input \in DetectInputs
    /\ catalog = EmptyDict
    /\ origins = EmptyDict
    /\ srcBody = [p \in SourceSkillDirs |-> 1]
    /\ clock = 0
    /\ temps = {}
    /\ scope = {}
    /\ last = [op |-> "init", raised |-> "", skills |-> <<>>]

DetectSkills ==
    \E listing \in Listings(Len(input.children)) :
        \E r \in {detect_skills_in(input, listing)} :
            /\ last' = [op |-> "detect", raised |-> r.raised, skills |-> r.skills]
            /\ UNCHANGED <<catalog, origins, srcBody, clock, temps, scope, input>>

NextDetect ==
    \/ DetectSkills

SpecDetect == InitDetect /\ [][NextDetect]_vars

\* The children of input that are directories holding a SKILL.md
SkillChildren ==
    {k \in 1..Len(input.children) : input.children[k].is_dir /\ input.children[k].md.has}

\* The name the claim gives the skill of a directory: the declared one, the
\* name of the directory when none is declared
NameOf(k, md) == IF md.name # <<>> THEN md.name ELSE DirName(k)

\* C21: detect_skills returns the root alone when the root holds SKILL.md,
\* whatever its children hold; otherwise one entry per child directory that
\* holds SKILL.md, in the sorted order of the directories and each directory
\* once, named by the name its frontmatter declares; and an empty list, not
\* an error, when there is none.  It raises only for a path that is missing
\* or not a directory, and for a frontmatter that is not a mapping.
C21_DetectSkills ==
    [][last'.op = "detect" =>
          /\ last'.raised # "" <=>
                \/ ~input.exists \/ ~input.is_dir
                \/ input.md.has /\ ~input.md.mapping
                \/ ~input.md.has /\ \E k \in SkillChildren : ~input.children[k].md.mapping
          /\ (last'.raised = "" /\ input.md.has) =>
                last'.skills = <<[name |-> NameOf(0, input.md), source_path |-> 0]>>
          /\ (last'.raised = "" /\ ~input.md.has) =>
                /\ {last'.skills[i].source_path : i \in 1..Len(last'.skills)} = SkillChildren
                /\ \A i, j \in 1..Len(last'.skills) :
                       i < j => last'.skills[i].source_path < last'.skills[j].source_path
                /\ \A i \in 1..Len(last'.skills) :
                       last'.skills[i].name =
                           NameOf(last'.skills[i].source_path,
                                  input.children[last'.skills[i].source_path].md)
          /\ (input.exists /\ input.is_dir /\ ~input.md.has /\ SkillChildren = {}) =>
                (last'.raised = "" /\ last'.skills = <<>>)]_vars

\* Two children with SKILL.md found under a root without one, one of them
\* declaring a name
C21_Witness ==
    /\ last.op = "detect" /\ last.raised = "" /\ ~input.md.has
    /\ Len(last.skills) = 2
    /\ last.skills[1].name \in DeclNames

\* A root with SKILL.md whose child also holds one: the root alone is found
C21_WitnessRoot ==
    /\ last.op = "detect" /\ input.md.has /\ SkillChildren # {}
    /\ Len(last.skills) = 1 /\ last.skills[1].source_path = 0

\* ------------------------------------------- resolve_source on a source

MaxSourceLen == 2

\* The segments of a local source string; the last two end in ".zip"
ZipSegs == {"x.zip", "y.zip"}
LocalSegs == {"hello-world", "d"} \cup ZipSegs

\* Source strings: the empty one, local paths, and strings about GitHub
SourceStrings ==
    {<<>>}
    \cup UNION {[1..n -> LocalSegs] : n \in 1..MaxSourceLen}
    \cup {<<"https:", "", "github.com">> \o t : t \in {<<>>, <<"">>, <<"o">>, <<"o", "r">>}}

OnDisk == {"missing", "dir", "file"}

InitResolve ==
    /\ input \in [source : SourceStrings, on_disk : OnDisk]
    /\ catalog = EmptyDict
    /\ origins = EmptyDict
    /\ srcBody = [p \in SourceSkillDirs |-> 1]
    /\ clock = 0
    /\ temps = {}
    /\ scope = {}
    /\ last = [op |-> "init", type |-> ""]

ResolveSource ==
    /\ last' = [op |-> "resolve", type |-> resolve_source_at(input.source, input.on_disk)]
    /\ UNCHANGED <<catalog, origins, srcBody, clock, temps, scope, input>>

NextResolve ==
    \/ ResolveSource

SpecResolve == InitResolve /\ [][NextResolve]_vars

\* The source string ends in ".zip"
EndsInZip(source) == source # <<>> /\ LastSeg(source) \in ZipSegs

\* The classification by first match: builtin name, GitHub prefix, existing
\* path ending in .zip, existing directory
ClassifiedAs(source, on_disk) ==
    IF source = <<>> THEN "error"
    ELSE IF Len(source) = 1 /\ source[1] \in BUILTIN_SKILLS THEN "builtin"
    ELSE IF Len(source) > 3 /\ SubSeq(source, 1, 3) = <<"https:", "", "github.com">>
    THEN "github"
    ELSE IF on_disk # "missing" /\ EndsInZip(source) THEN "zip"
    ELSE IF on_disk = "dir" THEN "local"
    ELSE "error"

\* C22: resolve_source classifies its input by first match in the order
\* builtin name, "https://github.com/" prefix, existing path ending in .zip,
\* existing local directory, and fails for every other input; a builtin name
\* wins over a directory of that name and an existing .zip file is a zip
\* source.
C22_ResolveOrder ==
    [][last'.op = "resolve" => last'.type = ClassifiedAs(input.source, input.on_disk)]_vars

\* The same without the existing paths that end in .zip
C22_ResolveOrderButZip ==
    [][(last'.op = "resolve" /\ ~(input.on_disk # "missing" /\ EndsInZip(input.source))) =>
          last'.type = ClassifiedAs(input.source, input.on_disk)]_vars

\* ------------------------------------------------- index state (staleness)

\* The schema version of the store, and the one of an older build
SCHEMA_VERSION == "fts-v1"
OldSchemaVersion == "fts-v0"

\* The skills directory of the index: one skill under a flat id and one
\* under a namespaced id (skills_dir/ns/x).
FlatId == <<"x">>
NsId == <<"ns", "x">>
IndexIds == {FlatId, NsId}

\* A skill directory: whether it holds SKILL.md, and the content and the
\* modification time of that file
Mtimes == {0, 1}
NoMdDir == [md |-> FALSE, content |-> 1, mtime |-> 0]
SkillFiles(id) ==
    IF id = FlatId THEN [md : {TRUE}, content : Bodies, mtime : Mtimes] \cup {NoMdDir}
    ELSE [md : {TRUE}, content : Bodies, mtime : {0}]

\* st_size of a SKILL.md: contents 1 and 2 have the same length
SizeOf(content) == (content + 1) \div 2

\* _hash_skills_dir with the modification time left out of the entries
hash_skills_dir_no_mtime(skills, unreadable) ==
    LET found == {k \in DOMAIN skills : Len(k) = 1 /\ skills[k].md}
        entries == {<<k, 0, SizeOf(skills[k].content),
                      IF k \in unreadable THEN 0 ELSE skills[k].content>> : k \in found}
    IN  [hash |-> entries, count |-> Cardinality(entries)]

\* _hash_skills_dir: one entry rel:mtime_ns:size:sha1 per immediate
\* subdirectory that holds SKILL.md ("err", here 0, for a file of unreadable,
\* which cannot be read); the digest of the sorted entries is the set of the
\* entries.
hash_skills_dir(skills, unreadable) ==
    LET found == {k \in DOMAIN skills : Len(k) = 1 /\ skills[k].md}
        entries == {<<k, skills[k].mtime, SizeOf(skills[k].content),
                      IF k \in unreadable THEN 0 ELSE skills[k].content>> : k \in found}
    IN  [hash |-> entries, count |-> Cardinality(entries)]

\* The embedding signatures of a call
Signatures ==
    {[embedding_provider |-> "none", embedding_model |-> ""],
     [embedding_provider |-> "openai", embedding_model |-> "small"],
     [embedding_provider |-> "openai", embedding_model |-> "large"]}

\* build_current_state(embedding_signature)
build_current_state(schema_version, sig, skills, unreadable) ==
    LET current == hash_skills_dir(skills, unreadable)
    IN  [schema_version |-> schema_version,
         embedding_provider |-> sig.embedding_provider,
         embedding_model |-> sig.embedding_model,
         skills_hash |-> current.hash, skill_count |-> current.count]

\* The state file: missing, not JSON, the empty object, or a state
EmptyState ==
    [schema_version |-> "", embedding_provider |-> "", embedding_model |-> "",
     skills_hash |-> {}, skill_count |-> 0]
StateFile(kind, data) == [kind |-> kind, data |-> data]

\* _load_state: None (ok = FALSE) for a missing or unreadable file
load_state(file) ==
    IF file.kind \in {"missing", "corrupt"} THEN [ok |-> FALSE, data |-> EmptyState]
    ELSE [ok |-> TRUE, data |-> file.data]

\* should_reindex with the test of the schema version after the others
should_reindex_schema_last(sig, force, skip_auto, skills, unreadable, file) ==
    LET current_state == build_current_state(SCHEMA_VERSION, sig, skills, unreadable)
        loaded == load_state(file)
        prev == loaded.data
        Decision(need, reason) == [need |-> need, reason |-> reason, state |-> current_state]
    IN  IF force THEN Decision(TRUE, "force")
        ELSE IF skip_auto THEN Decision(FALSE, "skip_auto")
        ELSE IF ~loaded.ok \/ file.kind = "empty" THEN Decision(TRUE, "no_state")
        ELSE IF prev.embedding_provider # sig.embedding_provider
        THEN Decision(TRUE, "provider_changed")
        ELSE IF prev.embedding_model # sig.embedding_model
        THEN Decision(TRUE, "model_changed")
        ELSE IF prev.skills_hash # current_state.skills_hash
        THEN Decision(TRUE, "hash_changed")
        ELSE IF prev.schema_version # SCHEMA_VERSION
        THEN Decision(TRUE, "schema_changed")
        ELSE Decision(FALSE, "unchanged")

\* should_reindex(embedding_signature, force, skip_auto) on the skills
\* directory skills and the state file file; the field previous of the
\* result is load_state(file).
should_reindex(sig, force, skip_auto, skills, unreadable, file) ==
    LET current_state == build_current_state(SCHEMA_VERSION, sig, skills, unreadable)
        loaded == load_state(file)
        prev == loaded.data
        Decision(need, reason) == [need |-> need, reason |-> reason, state |-> current_state]
    IN  IF force THEN Decision(TRUE, "force")
        ELSE IF skip_auto THEN Decision(FALSE, "skip_auto")
        ELSE IF ~loaded.ok \/ file.kind = "empty" THEN Decision(TRUE, "no_state")
        ELSE IF prev.schema_version # SCHEMA_VERSION
        THEN Decision(TRUE, "schema_changed")
        ELSE IF prev.embedding_provider # sig.embedding_provider
        THEN Decision(TRUE, "provider_changed")
        ELSE IF prev.embedding_model # sig.embedding_model
        THEN Decision(TRUE, "model_changed")
        ELSE IF prev.skills_hash # current_state.skills_hash
        THEN Decision(TRUE, "hash_changed")
        ELSE Decision(FALSE, "unchanged")

\* persist(state, skills_dir, db_path) and _write_state: the state file
\* holds the state; a failed write is logged and leaves the file as it was,
\* or cut short.
persist(state, file, written) ==
    IF written = "ok" THEN StateFile("json", state)
    ELSE IF written = "cut" THEN StateFile("corrupt", EmptyState)
    ELSE file

WriteOutcomes == {"ok", "cut", "failed"}

\* What the last call of the index state store returned
IndexOutcome(op, sig, force, skip_auto, unreadable, d) ==
    [op |-> op, sig |-> sig, force |-> force, skip_auto |-> skip_auto,
     unreadable |-> unreadable, need |-> d.need, reason |-> d.reason, state |-> d.state]

IndexIdle(op) ==
    IndexOutcome(op, [embedding_provider |-> "", embedding_model |-> ""], FALSE, FALSE, {},
                 [need |-> FALSE, reason |-> "", state |-> EmptyState])

\* The state files found at start: none, one that is not JSON, an empty
\* object, and the state a build wrote for the directory prior under one
\* schema version or the other
StateFilesAtStart(prior) ==
    {StateFile("missing", EmptyState), StateFile("corrupt", EmptyState),
     StateFile("empty", EmptyState)}
    \cup {StateFile("json", build_current_state(v, sig, prior, {})) :
              v \in {SCHEMA_VERSION, OldSchemaVersion}, sig \in Signatures}

\* input holds the skills directory, the state file, and the skills
\* directory as it was when the state in the file was computed.
InitIndex ==
    /\ \E skills \in {EmptyDict, [id \in IndexIds |-> [md |-> TRUE, content |-> 1, mtime |-> 0]]} :
          \E file \in StateFilesAtStart(skills) :
              input = [skills |-> skills, file |-> file, snapshot |-> skills]
    /\ catalog = EmptyDict
    /\ origins = EmptyDict
    /\ srcBody = [p \in SourceSkillDirs |-> 1]
    /\ clock = 0
    /\ temps = {}
    /\ scope = {}
    /\ last = IndexIdle("init")

ShouldReindex ==
    \E sig \in Signatures, force \in BOOLEAN, skip_auto \in BOOLEAN,
       unreadable \in SUBSET {FlatId} :
        \E d \in {should_reindex(sig, force, skip_auto, input.skills, unreadable,
                                  input.file)} :
            /\ last' = IndexOutcome("should_reindex", sig, force, skip_auto, unreadable, d)
            /\ UNCHANGED <<catalog, origins, srcBody, clock, temps, scope, input>>

\* The caller persists the state of the decision it just took
Persist ==
    \E written \in WriteOutcomes :
        /\ last.op = "should_reindex"
        /\ input' = [input EXCEPT !.file = persist(last.state, @, written),
                                  !.snapshot = IF written = "ok" THEN input.skills ELSE @]
        /\ last' = IndexIdle("persist")
        /\ UNCHANGED <<catalog, origins, srcBody, clock, temps, scope>>

\* A skill is installed, removed, edited or touched
EditSkills ==
    \E id \in IndexIds :
        /\ \/ \E f \in SkillFiles(id) :
                 /\ (IF id \in DOMAIN input.skills THEN input.skills[id] # f ELSE TRUE)
                 /\ input' = [input EXCEPT !.skills = Put(@, id, f)]
           \/ /\ id \in DOMAIN input.skills
              /\ input' = [input EXCEPT !.skills = Del(@, id)]
        /\ last' = IndexIdle("edit")
        /\ UNCHANGED <<catalog, origins, srcBody, clock, temps, scope>>

NextIndex ==
    \/ ShouldReindex
    \/ Persist
    \/ EditSkills

SpecIndex == InitIndex /\ [][NextIndex]_vars

\* The directory d holds a definition file for id
HasDefinition(d, id) == id \in DOMAIN d /\ d[id].md

\* The definition file of id is in b what it was in a: there or not, and
\* with the same content, size and modification time
SameDefinition(a, b, id) ==
    /\ HasDefinition(a, id) <=> HasDefinition(b, id)
    /\ HasDefinition(a, id) =>
          /\ a[id].content = b[id].content
          /\ SizeOf(a[id].content) = SizeOf(b[id].content)
          /\ a[id].mtime = b[id].mtime

\* The call is the later should_reindex of the claim: no force, no
\* skip_auto, and a state file that holds a state persisted under the same
\* schema version and embedding signature
LaterCheck ==
    /\ last'.op = "should_reindex" /\ ~last'.force /\ ~last'.skip_auto
    /\ input.file.kind = "json"
    /\ input.file.data.schema_version = SCHEMA_VERSION
    /\ input.file.data.embedding_provider = last'.sig.embedding_provider
    /\ input.file.data.embedding_model = last'.sig.embedding_model

\* The persisted state was computed while the definition file could not be
\* read
StoredUnread == \E e \in input.file.data.skills_hash : e[4] = 0

SameAsRead ==
    /\ HasDefinition(input.snapshot, FlatId) <=> HasDefinition(input.skills, FlatId)
    /\ HasDefinition(input.snapshot, FlatId) =>
          /\ input.snapshot[FlatId].mtime = input.skills[FlatId].mtime
          /\ SizeOf(input.snapshot[FlatId].content) = SizeOf(input.skills[FlatId].content)
          /\ IF StoredUnread \/ FlatId \in last'.unreadable
             THEN StoredUnread /\ FlatId \in last'.unreadable
             ELSE input.snapshot[FlatId].content = input.skills[FlatId].content

C23_WitnessNamespaced ==
    /\ last.op = "should_reindex" /\ last.reason = "unchanged"
    /\ HasDefinition(input.snapshot, NsId) /\ HasDefinition(input.skills, NsId)
    /\ input.snapshot[NsId].content # input.skills[NsId].content

\* The reason the order of the claim gives for the call that last' reports
ReasonByOrder ==
    LET prev == input.file.data
    IN  IF last'.force THEN "force"
        ELSE IF last'.skip_auto THEN "skip_auto"
        ELSE IF input.file.kind # "json" THEN "no_state"
        ELSE IF prev.schema_version # SCHEMA_VERSION THEN "schema_changed"
        ELSE IF prev.embedding_provider # last'.sig.embedding_provider
        THEN "provider_changed"
        ELSE IF prev.embedding_model # last'.sig.embedding_model THEN "model_changed"
        ELSE IF prev.skills_hash # last'.state.skills_hash THEN "hash_changed"
        ELSE "unchanged"

\* C24: should_reindex picks its reason by first match in the order force,
\* skip_auto, no_state, schema_changed, provider_changed, model_changed,
\* hash_changed, unchanged; need is true exactly for force, no_state,
\* schema_changed, provider_changed, model_changed and hash_changed; and a
\* state file that is missing or cannot be read gives no_state.
C24_ReasonOrder ==
    [][last'.op = "should_reindex" =>
          /\ last'.reason = ReasonByOrder
          /\ last'.need <=> last'.reason \in {"force", "no_state", "schema_changed",
                                              "provider_changed", "model_changed",
                                              "hash_changed"}
          /\ (~last'.force /\ ~last'.skip_auto /\ input.file.kind \in {"missing", "corrupt"})
                => last'.reason = "no_state"]_vars

\* A state of an older schema, written for another provider and another
\* content of the skills directory: schema_changed comes first
C24_Witness ==
    /\ last.op = "should_reindex" /\ last.reason = "schema_changed" /\ last.need
    /\ input.file.data.embedding_provider # last.sig.embedding_provider
    /\ input.file.data.skills_hash # last.state.skills_hash

\* A state file that is not JSON: no_state
C24_WitnessCorrupt ==
    /\ last.op = "should_reindex" /\ last.reason = "no_state"
    /\ input.file.kind = "corrupt"


\* ------------------------------------- check_update_available and update_skill

\* The failures of one check_update_available call
CheckEnvs ==
    {NoUpdateFailures, [NoUpdateFailures EXCEPT !.storeOk = FALSE],
     [NoUpdateFailures EXCEPT !.apiOk = FALSE]}

\* One skill installed by add_skill from a GitHub URL, a single-skill
\* directory or a directory of skills
InitCheck ==
    \E src \in {GhUrl, SoloBase, PackBase} :
      \E st \in {InstalledFrom(<<src>>, 1, [cat |-> EmptyDict, org |-> EmptyDict,
                                            ids |-> <<>>])} :
          /\ scope = {src}
          /\ catalog = st.cat
          /\ origins = st.org
          /\ srcBody = [p \in SourceSkillDirs |-> 1]
          /\ input = <<>>
          /\ clock = 0
          /\ temps = {}
          /\ last = Outcome("init", <<>>, FALSE, FALSE, TRUE, FALSE, "")

CheckUpdate ==
    \E skill_id \in ScopeIds(scope), env \in CheckEnvs :
      \E r \in {check_update_available(skill_id, catalog, origins, srcBody, env)} :
        /\ origins' = r.org
        /\ last' = r.out @@ [env |-> env]
        /\ UNCHANGED <<catalog, srcBody, clock, temps, scope, input>>

NextCheck ==
    \/ CheckUpdate
    \/ UpdateSkill
    \/ EditInstalled
    \/ ChangeSource

SpecCheck == InitCheck /\ [][NextCheck]_vars

\* The call that just returned worked on a skill whose Origin is a GitHub one
OnGithubSkill ==
    /\ last'.op \in {"update", "check"}
    /\ get_origin(origins, last'.id).kind = "github"

\* What phase 1 decides from the hashes alone: the source differs from the
\* installed directory and no unforced local modification stands in the way
DecidedToApply ==
    LET installed == compute_content_hash_with_reason(catalog, last'.id).hash
        stored == get_origin(origins, last'.id).content_hash
    IN  /\ last'.source_hash # EmptyHash
        /\ last'.source_hash # installed
        /\ last'.force \/ stored = EmptyHash \/ stored = installed

\* C25: for a GitHub skill the archive is downloaded exactly by an update
\* that is not a dry run and whose hash comparison decided to apply; a dry
\* run and check_update_available never download.
C25_DownloadOnlyToApply ==
    [][OnGithubSkill =>
          (last'.fetched <=> (last'.op = "update" /\ ~last'.dry_run /\ DecidedToApply))]_vars

\* C25 happens: a dry run reports the update without a download
C25_Witness ==
    /\ last.op = "update"
    /\ last.id = <<"gh">>
    /\ last.dry_run
    /\ last.updated = {<<"gh">>}
    /\ ~last.fetched

\* C25 happens: the update itself downloads
C25_WitnessApplied ==
    /\ last.op = "update"
    /\ last.id = <<"gh">>
    /\ ~last.dry_run
    /\ last.fetched
    /\ last.message = "updated"

\* C25 happens: the check finds the update without a download
C25_WitnessCheck ==
    /\ last.op = "check"
    /\ last.id = <<"gh">>
    /\ last.available
    /\ ~last.fetched


\* The update that just returned found the source hash equal to the hash of
\* the installed directory while the stored content_hash differs from it
FoundEqualButStoredDrifted ==
    /\ last'.op = "update"
    /\ last'.id \in DOMAIN catalog
    /\ last'.id \in DOMAIN origins
    /\ last'.source_hash # EmptyHash
    /\ last'.source_hash = compute_content_hash_with_reason(catalog, last'.id).hash
    /\ origins[last'.id].content_hash # last'.source_hash

\* C26 (as the specification states it): an update that finds the source hash
\* equal to the installed hash while the stored content_hash differs sets the
\* stored content_hash to the installed hash, reports "up to date" with
\* success and without local_modified, and changes nothing else in the
\* Origin record or in the catalog.
C26_ResyncOnly ==
    [][FoundEqualButStoredDrifted =>
          /\ ~last'.raised
          /\ last'.success
          /\ last'.message = "up to date"
          /\ ~last'.local_modified
          /\ catalog' = catalog
          /\ origins' = Put(origins, last'.id,
                            [origins[last'.id] EXCEPT !.content_hash = last'.source_hash])]_vars

\* C26 whenever the call returns: the report is as stated and the catalog is
\* left alone
C26_ResyncReported ==
    [][(FoundEqualButStoredDrifted /\ ~last'.raised) =>
          /\ last'.success
          /\ last'.message = "up to date"
          /\ ~last'.local_modified
          /\ catalog' = catalog
          /\ origins'[last'.id].content_hash = last'.source_hash]_vars


\* C27 (as the specification states it): an update that is not a dry run and
\* returns without success leaves the installed directory of the skill in
\* place, with the content it had before the call.
C27_FailedUpdateKeepsDirectory ==
    [][(/\ last'.op = "update"
        /\ ~last'.dry_run
        /\ ~last'.raised
        /\ ~last'.success
        /\ last'.id \in DOMAIN catalog) =>
          /\ last'.id \in DOMAIN catalog'
          /\ catalog'[last'.id] = catalog[last'.id]]_vars

\* C27 for the failures met before the installed directory is removed: a
\* refusal, a source that cannot be read, a failed download
C27_RefusedUpdateKeepsDirectory ==
    [][(/\ last'.op = "update"
        /\ ~last'.dry_run
        /\ ~last'.raised
        /\ ~last'.success
        /\ last'.message # "failed"
        /\ last'.id \in DOMAIN catalog) =>
          /\ last'.id \in DOMAIN catalog'
          /\ catalog'[last'.id] = catalog[last'.id]]_vars


\* check_update_available just returned for an installed skill that has an
\* Origin record
CheckedInstalled ==
    /\ last'.op = "check"
    /\ ~last'.raised
    /\ last'.id \in DOMAIN catalog
    /\ last'.id \in DOMAIN origins

\* update_skill with force and dry_run, on the state the check saw, reports
\* the skill in updated
DryRunWouldUpdate ==
    last'.id \in update_skill(last'.id, catalog, origins, srcBody, TRUE, TRUE,
                              GoodResponse(1), last'.env, 0).out.updated

\* C28 (as the specification states it): for an installed skill with an
\* Origin record, check_update_available reports available exactly when
\* update_skill with force and dry_run reports the skill in updated.
C28_CheckAgreesWithDryRun ==
    [][CheckedInstalled => (last'.available <=> DryRunWouldUpdate)]_vars

\* The recorded path of a local origin leads to a directory with SKILL.md
RecordedPathResolves ==
    LET origin == origins[last'.id]
    IN  origin.kind = "local" /\ origin.path # <<>>
            => HasSkillMd(JoinPath(origin.source, origin.path))

\* C28 for the records whose path resolves: both calls look at the same
\* source directory and agree
C28_AgreeWhenPathResolves ==
    [][(CheckedInstalled /\ RecordedPathResolves) =>
          (last'.available <=> DryRunWouldUpdate)]_vars


\* -------------------------------- check_update_available on earlier records

\* "https://github.com/o/r/tree/main/skills": the directory that holds the
\* skill gh
GhParentUrl == <<"https:", "", "github.com", "o", "r", "tree", "main", "skills">>

\* The Origin record the earlier command line wrote for a skill added from a
\* GitHub URL: the URL and its normalized path, no content_hash
CliGithubRecord(source) ==
    OriginRec("github", source, parse_github_url(source).path, EmptyHash, 0, 0)

\* The skill gh installed either by add_skill from its own URL or by the
\* earlier command line from the URL of its parent directory, or a local
\* skill installed by add_skill
InitStored ==
    \E src \in {GhParentUrl, GhUrl, SoloBase, PackBase} :
      \E st \in {IF src = GhParentUrl
                 THEN [cat |-> Put(EmptyDict, <<"gh">>, Dir(1)),
                       org |-> Put(EmptyDict, <<"gh">>, CliGithubRecord(src))]
                 ELSE InstalledFrom(<<src>>, 1, [cat |-> EmptyDict, org |-> EmptyDict,
                                                 ids |-> <<>>])} :
          /\ scope = {IF src = GhParentUrl THEN GhUrl ELSE src}
          /\ catalog = st.cat
          /\ origins = st.org
          /\ srcBody = [p \in SourceSkillDirs |-> 1]
          /\ input = <<>>
          /\ clock = 0
          /\ temps = {}
          /\ last = Outcome("init", <<>>, FALSE, FALSE, TRUE, FALSE, "")

NextStored ==
    \/ CheckUpdate
    \/ EditInstalled
    \/ ChangeSource

SpecStored == InitStored /\ [][NextStored]_vars

\* C29 (as the specification states it): check_update_available leaves the
\* catalog and the whole Origin Store as they were.
C29_CheckReadOnly ==
    [][last'.op = "check" => (catalog' = catalog /\ origins' = origins)]_vars

\* C29: check_update_available leaves the catalog as it was and writes nothing
\* to the Origin Store but the path of the checked record, and that only for
\* a GitHub record, to the recorded directory narrowed by the skill's name.
C29_CheckWritesOnlyNarrowedPath ==
    [][last'.op = "check" =>
          /\ catalog' = catalog
          /\ DOMAIN origins' = DOMAIN origins
          /\ \A k \in DOMAIN origins :
                /\ origins'[k] = [origins[k] EXCEPT !.path = origins'[k].path]
                /\ origins'[k].path # origins[k].path =>
                     /\ k = last'.id
                     /\ origins[k].kind = "github"
                     /\ origins'[k].path
                          = parse_github_url(origins[k].source).path \o <<LastSeg(k)>>]_vars

\* C29 happens: a check narrowed the path of a record of the earlier command
\* line
C29_Witness ==
    /\ last.op = "check"
    /\ last.id = <<"gh">>
    /\ origins[<<"gh">>].source = GhParentUrl
    /\ origins[<<"gh">>].path = <<"skills", "gh">>

\* C29 happens: a check of a local skill found an update and wrote nothing
C29_WitnessLocal ==
    /\ last.op = "check"
    /\ last.id = <<"a">>
    /\ last.available
    /\ origins[<<"a">>].path = <<"a">>


\* ------------------------------------------------- origins.json as a file

\* origins.json: "missing", a JSON "map" of records, "not_map" (JSON of another
\* type) or "unreadable" (a file that holds the records of data but that open
\* or json.load fails on)
StoreFile(kind, data) == [kind |-> kind, data |-> data]

\* _load: the map of the file, or {} with a warning
origins_load(file) ==
    IF file.kind = "map" THEN file.data ELSE EmptyDict

\* _save: the whole file is rewritten with data; ok = FALSE is the write
\* failing with the file left as it was
origins_save(file, data, ok) ==
    IF ok THEN StoreFile("map", data) ELSE file

\* record_origin: data = _load(); data[skill_id] = enriched; _save(data)
record_origin_file(file, skill_id, payload, ok) ==
    origins_save(file, record_origin(origins_load(file), skill_id, payload, TRUE), ok)

\* remove_origin that saves whether or not the id had a record
remove_origin_file_always_saves(file, skill_id, ok) ==
    origins_save(file, remove_origin(origins_load(file), skill_id, TRUE), ok)

\* remove_origin: data = _load(); if skill_id in data: del, _save(data)
remove_origin_file(file, skill_id, ok) ==
    IF skill_id \in DOMAIN origins_load(file)
    THEN origins_save(file, remove_origin(origins_load(file), skill_id, TRUE), ok)
    ELSE file

StoreIds == {<<"a">>, <<"gh">>}

\* The payloads add_skill records for a local and for a GitHub source
StorePayloads ==
    {OriginRec("local", PackBase, <<"a">>, EmptyHash, 0, 0),
     OriginRec("github", GhUrl, RemoteSkillDir, EmptyHash, 0, 0)}

StoreMaps == UNION {[ids -> StorePayloads] : ids \in SUBSET StoreIds}

StoreFilesAtStart ==
    {StoreFile("missing", EmptyDict), StoreFile("not_map", EmptyDict)}
    \cup {StoreFile(kind, data) : kind \in {"map", "unreadable"}, data \in StoreMaps}

\* What a call on the store did: raised is the failed write leaving the call
StoreOutcome(op, skill_id, payload, ok, before) ==
    [op |-> op, id |-> skill_id, payload |-> payload, raised |-> ~ok, before |-> before]

InitOriginFile ==
    /\ input \in StoreFilesAtStart
    /\ last = StoreOutcome("init", <<>>, NoOrigin, TRUE, "")
    /\ catalog = EmptyDict
    /\ origins = EmptyDict
    /\ srcBody = [p \in SourceSkillDirs |-> 1]
    /\ clock = 0
    /\ temps = {}
    /\ scope = {}

RecordOrigin ==
    \E skill_id \in StoreIds, payload \in StorePayloads, ok \in BOOLEAN :
        /\ input' = record_origin_file(input, skill_id, payload, ok)
        /\ last' = StoreOutcome("record", skill_id, payload, ok, input.kind)
        /\ UNCHANGED <<catalog, origins, srcBody, clock, temps, scope>>

RemoveOrigin ==
    \E skill_id \in StoreIds, ok \in BOOLEAN :
        /\ input' = remove_origin_file(input, skill_id, ok)
        /\ last' = StoreOutcome("remove", skill_id, NoOrigin,
                                ok \/ skill_id \notin DOMAIN origins_load(input), input.kind)
        /\ UNCHANGED <<catalog, origins, srcBody, clock, temps, scope>>

NextOriginFile ==
    \/ RecordOrigin
    \/ RemoveOrigin

SpecOriginFile == InitOriginFile /\ [][NextOriginFile]_vars

\* The records of ids other than the one the call was about, among recs, are
\* in the file afterwards as they were
OthersKept(recs) ==
    \A k \in DOMAIN recs \ {last'.id} :
        /\ k \in DOMAIN input'.data
        /\ input'.data[k] = recs[k]

C30_WitnessUnreadable ==
    /\ last.op = "record"
    /\ ~last.raised
    /\ last.before = "unreadable"
    /\ input = StoreFile("map", Put(EmptyDict, last.id, last.payload))

\* C30 happens: remove_origin of an id without a record left a file that is
\* not a map as it was
C30_WitnessRemoveAbsent ==
    /\ last.op = "remove"
    /\ last.before = "not_map"
    /\ input.kind = "not_map"

====
